---- MODULE Spec2Model ----
(***************************************************************************)
(* Model of the mock clock engine of benbjohnson/clock and its forks.      *)
(*                                                                         *)
(* The repository holds several variants of the engine.  The model follows *)
(* the richest one, UnsynchronizedMock (src/mock.go:520-810 together with  *)
(* the Timer and Ticker of src/timer.go:1-114); the other variants are     *)
(* modelled over the same variables by their own actions.                  *)
(*                                                                         *)
(* Virtual time is an integer number of ticks since the epoch.  A channel  *)
(* is the sequence of the values it buffers.  The controller goroutine is  *)
(* followed through Add/Set by pc; every action is one critical section of *)
(* the mutex mu, or one unlocked step between two of them.                 *)
(***************************************************************************)
EXTENDS Integers, Sequences, FiniteSets, TLC

\* ------------------------------------------------------------------ bounds
MaxEvents == 2          \* timers and tickers created in one behaviour
MaxTime   == 3          \* the clock is advanced up to this time
MaxDur    == 2          \* longest delay or period passed to the API

\* ------------------------------------------------------- program constants
Epoch   == 0            \* time.Unix(0, 0)
ChanCap == 1            \* make(chan time.Time, 1)

Ids       == 1..MaxEvents
Durations == 0..MaxDur
Periods   == 1..MaxDur
Targets   == 0..MaxTime
NoId      == 0

\* The locals of a call are reset when the call returns, so that states
\* differ only by what the program can still read.
VARIABLES
    now,        \* m.now
    timers,     \* m.timers: the registry, a sequence of event ids
    ev,         \* the Timer and Ticker objects, by id
    mu,         \* m.mu: "free" or the goroutine holding it
    sync,       \* the start/confirm counters of the mock
    pc,         \* position of the controller goroutine
    target,     \* Add/Set: the local t (runNextTimer's max)
    cur,        \* runNextTimer: the local t, the event picked
    tickNow,    \* the argument now of Tick
    h,          \* history, by event: when it was armed, how often it fired
    adv,        \* history of the advance in progress or just finished
    call,       \* history: the latest Stop or Reset call and its result
    other       \* a second goroutine calling Add: its position and locals

vars ==
    <<now, timers, ev, mu, sync, pc, target, cur, tickNow, h, adv, call, other>>

\* ------------------------------------------------------------- the objects
NoFn == [op |-> "nil", arg |-> 0]

\* What an AfterFunc callback does: nothing, Reset its own Timer by arg,
\* or Stop the Timer arg.
Callbacks ==
    {[op |-> "nop", arg |-> 0]}
    \cup {[op |-> "reset", arg |-> d] : d \in Durations}
    \cup {[op |-> "stop", arg |-> j] : j \in Ids}

NoEvent ==
    [kind |-> "none", next |-> 0, d |-> 0, stopped |-> FALSE, c |-> <<>>,
     fn |-> NoFn]

\* born, d0: when the event was last armed (created or Reset) and with what
\* delay; fires: how often it fired since; pristine: never stopped or reset;
\* armed: armed and neither fired nor stopped since.
NoHist ==
    [born |-> 0, d0 |-> 0, fires |-> 0, pristine |-> TRUE, armed |-> FALSE]

Armed(t, d, p) ==
    [born |-> t, d0 |-> d, fires |-> 0, pristine |-> p, armed |-> TRUE]

FiresCap == MaxTime + MaxDur + 2

\* op, arg: the call and its argument; now0: the time when it was made;
\* due0: the events registered then with fireAt <= now0 + arg (or <= arg for
\* Set) and their fireAt; fired: the events fired so far; lastTs: the
\* timestamp of the latest fire; done: the call has returned; opts: the
\* options it was given; i: the option it has come to.
NoAdv  == [op |-> "none", arg |-> 0, now0 |-> 0, due0 |-> <<>>,
           fired |-> {}, lastTs |-> -1, done |-> FALSE, opts |-> <<>>, i |-> 0]

\* op, id, d: the call, its Timer and its argument; at: the time when it was
\* made; ret: what it returned; wasArmed: the Timer was armed before it;
\* inFn: it was made by a callback; self: by the Timer's own callback.
NoCall == [op |-> "none", id |-> NoId, d |-> 0, at |-> 0, ret |-> FALSE,
           wasArmed |-> FALSE, inFn |-> FALSE, self |-> FALSE]

Called(op, e, d, ret, inFn) ==
    [op |-> op, id |-> e, d |-> d, at |-> now, ret |-> ret,
     wasArmed |-> h[e].armed, inFn |-> inFn, self |-> inFn /\ e = cur]

\* pc: "none", "loop", "tick", "final", "blocked" or "done"; d, target: the
\* argument of Add and the local t of Set; cur, tickNow: the locals of the
\* loop of Set.
NoOther == [pc |-> "none", d |-> 0, target |-> 0, cur |-> NoId, tickNow |-> 0]

\* The counters of the mock; newTimers and confirms are the counts of the two
\* wait groups, tForFail says whether a fail-fast sink is set, failures counts
\* the Errorf calls on it.  History: loose, the creations since the latest
\* ExpectStarts that found nothing outstanding; due, the number of creations
\* the latest ExpectStarts asks for in all (0 when it was not made from a
\* clean slate); made, the Confirm calls so far; dueC, as due for Confirm
\* calls.
NoSync == [recentTimers |-> 0, expectingStarts |-> 0, newTimers |-> 0,
           recentConfirms |-> 0, expectingConfirms |-> 0, confirms |-> 0,
           tForFail |-> FALSE, failures |-> 0,
           loose |-> 0, due |-> 0, made |-> 0, dueC |-> 0]

Registered(e) == \E i \in 1..Len(timers) : timers[i] = e
Used          == {e \in Ids : ev[e].kind # "none"}
IsTimer(e)    == ev[e].kind = "timer"
IsTicker(e)   == ev[e].kind = "ticker"
HasFn(e)      == ev[e].fn.op # "nil"

\* ----------------------------------------------------------- the registry
\* A comparison the wrong way round.
LessReversed(E, a, b) == E[a].next > E[b].next

\* clockTimers.Less
Less(E, a, b) == E[a].next < E[b].next

\* One pass of the inner loop of insertionSort: x moves left past every
\* element it is Less than, so it lands behind the last one it is not.
RECURSIVE InsertSorted(_, _, _)
InsertSorted(E, s, x) ==
    IF s = <<>> THEN <<x>>
    ELSE IF Less(E, x, s[Len(s)])
         THEN Append(InsertSorted(E, SubSeq(s, 1, Len(s) - 1), x), s[Len(s)])
         ELSE Append(s, x)

\* sort.Sort(m.timers): for at most 12 elements the library runs
\* insertionSort alone, which is stable.
RECURSIVE SortTimers(_, _)
SortTimers(E, s) ==
    IF s = <<>> THEN <<>>
    ELSE InsertSorted(E, SortTimers(E, SubSeq(s, 1, Len(s) - 1)), s[Len(s)])

RECURSIVE Without(_, _)
Without(s, e) ==
    IF s = <<>> THEN <<>>
    ELSE IF Head(s) = e THEN Tail(s)
    ELSE <<Head(s)>> \o Without(Tail(s), e)

\* A removal that drops nothing.
RemoveNothing(E, s, e) == SortTimers(E, s)

\* A removal that drops the head of the registry with the event.
RemoveWithHead(E, s, e) ==
    SortTimers(E, Without(IF s = <<>> THEN s ELSE Tail(s), e))

\* UnsynchronizedMock.removeClockTimer: drop the first occurrence, then sort
RemoveClockTimer(E, s, e) == SortTimers(E, Without(s, e))

\* ------------------------------------------------------------------- Init
Init ==
    /\ now = Epoch
    /\ timers = <<>>
    /\ ev = [e \in Ids |-> NoEvent]
    /\ mu = "free"
    /\ sync = NoSync
    /\ pc = "idle"
    /\ target = 0
    /\ cur = NoId
    /\ tickNow = 0
    /\ h = [e \in Ids |-> NoHist]
    /\ adv = NoAdv
    /\ call = NoCall
    /\ other = NoOther

\* The next unused object.
FreshId == CHOOSE e \in Ids : ev[e].kind = "none" /\ \A j \in Ids : j < e => ev[j].kind # "none"
CanCreate == \E e \in Ids : ev[e].kind = "none"

\* A bookkeeping that never reports.
StartedTimerSilent(s) ==
    IF s.expectingStarts > 0
    THEN [s EXCEPT !.expectingStarts = @ - 1, !.newTimers = @ - 1]
    ELSE [s EXCEPT !.recentTimers = @ + 1]

\* The bookkeeping NewTimer does after appending the timer.
StartedTimer(s) ==
    IF s.expectingStarts > 0
    THEN [s EXCEPT !.expectingStarts = @ - 1, !.newTimers = @ - 1]
    ELSE IF s.tForFail
    THEN [s EXCEPT !.failures = @ + 1]
    ELSE [s EXCEPT !.recentTimers = @ + 1]

\* The bookkeeping NewTicker does: recentTimers++ first, then as NewTimer.
StartedTicker(s) == StartedTimer([s EXCEPT !.recentTimers = @ + 1])

\* A delay that is dropped.
TimeAddNothing(t, d) == t

\* A delay that counts double.
TimeAddTwice(t, d) == t + d + d

\* m.now.Add(d)
TimeAdd(t, d) == t + d

\* UnsynchronizedMock.NewTimer(d), and AfterFunc(d, f) when f is a callback
NewTimerWith(d, f) ==
    /\ pc = "idle" /\ mu = "free" /\ CanCreate
    /\ LET e == FreshId IN
        /\ ev' = [ev EXCEPT ![e] =
                    [kind |-> "timer", next |-> TimeAdd(now, d), d |-> 0,
                     stopped |-> FALSE, c |-> <<>>, fn |-> f]]
        /\ timers' = Append(timers, e)
        /\ h' = [h EXCEPT ![e] = Armed(now, d, TRUE)]
    /\ sync' = StartedTimer(sync)
    /\ adv' = NoAdv /\ call' = NoCall
    /\ UNCHANGED <<now, mu, pc, target, cur, tickNow, other>>

NewTimer == \E d \in Durations : NewTimerWith(d, NoFn)

\* UnsynchronizedMock.AfterFunc(d, f) with a callback that touches no timer
AfterFuncNop ==
    \E d \in Durations : NewTimerWith(d, [op |-> "nop", arg |-> 0])

\* UnsynchronizedMock.AfterFunc(d, f); the callback stops a Timer that
\* exists already, or its own.
AfterFunc ==
    \E d \in Durations, f \in Callbacks :
        /\ CanCreate
        /\ f.op = "stop" => (f.arg = FreshId \/ ev[f.arg].kind = "timer")
        /\ NewTimerWith(d, f)

\* UnsynchronizedMock.NewTicker(d)
NewTicker ==
    \E d \in Periods :
        /\ pc = "idle" /\ mu = "free" /\ CanCreate
        /\ LET e == FreshId IN
            /\ ev' = [ev EXCEPT ![e] =
                        [kind |-> "ticker", next |-> TimeAdd(now, d), d |-> d,
                         stopped |-> FALSE, c |-> <<>>, fn |-> NoFn]]
            /\ timers' = Append(timers, e)
            /\ h' = [h EXCEPT ![e] = Armed(now, d, TRUE)]
        /\ sync' = StartedTicker(sync)
        /\ adv' = NoAdv /\ call' = NoCall
        /\ UNCHANGED <<now, mu, pc, target, cur, tickNow, other>>

\* ------------------------------------------------------------ Add and Set
DueAt(t) ==
    [e \in {x \in Ids : Registered(x) /\ ev[x].next <= t} |-> ev[e].next]

StartAdv(op, arg) ==
    [op |-> op, arg |-> arg, now0 |-> now,
     due0 |-> DueAt(IF op = "Add" THEN now + arg ELSE arg),
     fired |-> {}, lastTs |-> -1, done |-> FALSE, opts |-> <<>>, i |-> 0]

\* UnsynchronizedMock.Add(d), up to the loop: t := m.now.Add(d)
AddBegin ==
    \E d \in 0..MaxTime :
        /\ pc = "idle"
        /\ now + d <= MaxTime
        /\ target' = now + d
        /\ pc' = "loop"
        /\ adv' = StartAdv("Add", d)
        /\ call' = NoCall
        /\ UNCHANGED <<now, timers, ev, mu, sync, cur, tickNow, h, other>>

\* UnsynchronizedMock.Set(t), up to the loop
SetBegin ==
    \E t \in Targets :
        /\ pc = "idle"
        /\ target' = t
        /\ pc' = "loop"
        /\ adv' = StartAdv("Set", t)
        /\ call' = NoCall
        /\ UNCHANGED <<now, timers, ev, mu, sync, cur, tickNow, h, other>>

\* A bound that leaves out the target itself.
AfterOrAt(t, max) == t >= max

\* t.Next().After(max)
After(t, max) == t > max

\* A jump straight to the target.
MoveNowToMax(next, max) == max

\* A fire that leaves the clock where it was.
MoveNowStays(next, max) == now

\* runNextTimer: m.now = t.Next(), the time the clock takes at a fire
MoveNow(next, max) == next

\* A period that drifts.
TickerNextLate(t, d) == t + d + 1

\* internalTicker.Tick: t.next = now.Add(t.d)
TickerNext(t, d) == t + d

\* UnsynchronizedMock.runNextTimer(max), up to the call of Tick
RunNextTimer ==
    /\ pc = "loop" /\ mu = "free"
    /\ LET sorted == SortTimers(ev, timers) IN
        /\ timers' = sorted
        /\ IF sorted = <<>> \/ After(ev[sorted[1]].next, target)
           THEN /\ pc' = "final"
                /\ UNCHANGED <<now, cur, tickNow>>
           ELSE /\ now' = MoveNow(ev[sorted[1]].next, target)
                /\ cur' = sorted[1]
                /\ tickNow' = now'
                /\ pc' = "tick"
    /\ UNCHANGED <<ev, mu, sync, target, h, adv, call, other>>

Fired(e) ==
    /\ h' = [h EXCEPT ![e].fires = IF @ < FiresCap THEN @ + 1 ELSE @,
                      ![e].armed = IF IsTimer(e) THEN FALSE ELSE @]
    /\ adv' = [adv EXCEPT !.fired = @ \cup {e}, !.lastTs = tickNow]

\* internalTimer.Tick(now) of a Timer with a channel.  The send happens with
\* the mutex held; on a full channel the goroutine blocks there for good.
TimerTick ==
    /\ pc = "tick" /\ mu = "free"
    /\ IsTimer(cur) /\ ~HasFn(cur)
    /\ IF Len(ev[cur].c) >= ChanCap
       THEN /\ mu' = "ctl"
            /\ pc' = "blocked"
            /\ UNCHANGED <<ev, timers, h, adv>>
       ELSE /\ LET E == [ev EXCEPT ![cur].c = Append(@, tickNow),
                                    ![cur].stopped = TRUE] IN
                /\ ev' = E
                /\ timers' = RemoveClockTimer(ev, timers, cur)
            /\ Fired(cur)
            /\ pc' = "loop"
            /\ UNCHANGED mu
    /\ IF pc' = "loop" THEN cur' = NoId /\ tickNow' = 0
                       ELSE UNCHANGED <<cur, tickNow>>
    /\ UNCHANGED <<now, sync, target, call, other>>

\* internalTimer.Tick(now) of an AfterFunc Timer, up to the call t.fn():
\* the mutex is taken and released again
TimerTickFn ==
    /\ pc = "tick" /\ mu = "free"
    /\ IsTimer(cur) /\ HasFn(cur)
    /\ Fired(cur)
    /\ pc' = "fn"
    /\ UNCHANGED <<now, timers, ev, mu, sync, target, cur, tickNow, call, other>>

\* Timer.Stop(): the state it leaves
StopResult(e, inFn) ==
    /\ ev' = [ev EXCEPT ![e].stopped = TRUE]
    /\ timers' = RemoveClockTimer(ev, timers, e)
    /\ call' = Called("Stop", e, 0, ~ev[e].stopped, inFn)
    /\ h' = [h EXCEPT ![e].armed = FALSE, ![e].pristine = FALSE]

\* A Reset that never registers.
ResetResultUnregistered(e, d, inFn) ==
    /\ ev' = [ev EXCEPT ![e].next = TimeAdd(now, d), ![e].stopped = FALSE]
    /\ timers' = timers
    /\ call' = Called("Reset", e, d, ~ev[e].stopped, inFn)
    /\ h' = [h EXCEPT ![e] = Armed(now, d, FALSE)]

\* Timer.Reset(d): the state it leaves
ResetResult(e, d, inFn) ==
    /\ ev' = [ev EXCEPT ![e].next = TimeAdd(now, d), ![e].stopped = FALSE]
    /\ timers' = IF ev[e].stopped THEN Append(timers, e) ELSE timers
    /\ call' = Called("Reset", e, d, ~ev[e].stopped, inFn)
    /\ h' = [h EXCEPT ![e] = Armed(now, d, FALSE)]

\* t.fn(): the callback runs on the advancing goroutine, the mutex released
Callback ==
    /\ pc = "fn"
    /\ LET f == ev[cur].fn IN
        \/ /\ f.op = "nop"
           /\ UNCHANGED <<ev, timers, call, h>>
        \/ /\ f.op = "reset" /\ mu = "free"
           /\ ResetResult(cur, f.arg, TRUE)
        \/ /\ f.op = "stop" /\ mu = "free"
           /\ StopResult(f.arg, TRUE)
    /\ pc' = "afterfn"
    /\ UNCHANGED <<now, mu, sync, target, cur, tickNow, adv, other>>

\* internalTimer.Tick(now) of an AfterFunc Timer, after t.fn() returned
TimerTickDone ==
    /\ pc = "afterfn" /\ mu = "free"
    /\ ev' = [ev EXCEPT ![cur].stopped = TRUE]
    /\ timers' = RemoveClockTimer(ev, timers, cur)
    /\ pc' = "loop"
    /\ cur' = NoId /\ tickNow' = 0
    /\ UNCHANGED <<now, mu, sync, target, h, adv, call, other>>

\* internalTicker.Tick(now): a send that gives up on a full channel
TickerTick ==
    /\ pc = "tick"
    /\ IsTicker(cur)
    /\ ev' = [ev EXCEPT
                ![cur].c = IF Len(@) < ChanCap THEN Append(@, tickNow) ELSE @,
                ![cur].next = TickerNext(tickNow, ev[cur].d)]
    /\ Fired(cur)
    /\ pc' = "loop"
    /\ cur' = NoId /\ tickNow' = 0
    /\ UNCHANGED <<now, timers, mu, sync, target, call, other>>

\* Add and Set after the loop: m.now = t under the mutex
AdvanceEnd ==
    /\ pc = "final" /\ mu = "free"
    /\ now' = target
    /\ pc' = "idle"
    /\ target' = 0
    /\ adv' = [adv EXCEPT !.done = TRUE]
    /\ UNCHANGED <<timers, ev, mu, sync, cur, tickNow, h, call, other>>

\* -------------------------------------------- calls between two advances
\* Timer.Stop()
Stop ==
    \E e \in Ids :
        /\ pc = "idle" /\ mu = "free"
        /\ IsTimer(e)
        /\ StopResult(e, FALSE)
        /\ adv' = NoAdv
        /\ UNCHANGED <<now, mu, sync, pc, target, cur, tickNow, other>>

\* Timer.Reset(d)
Reset ==
    \E e \in Ids, d \in Durations :
        /\ pc = "idle" /\ mu = "free"
        /\ IsTimer(e)
        /\ ResetResult(e, d, FALSE)
        /\ adv' = NoAdv
        /\ UNCHANGED <<now, mu, sync, pc, target, cur, tickNow, other>>

\* <-t.C: the consumer takes the value buffered in the channel
Recv ==
    \E e \in Ids :
        /\ pc = "idle"
        /\ ev[e].kind # "none" /\ ~HasFn(e)
        /\ ev[e].c # <<>>
        /\ ev' = [ev EXCEPT ![e].c = Tail(@)]
        /\ adv' = NoAdv /\ call' = NoCall
        /\ UNCHANGED <<now, timers, mu, sync, pc, target, cur, tickNow, h, other>>

\* ---------------------------------------------------------- specifications
\* One advance, step by step.
Advance ==
    \/ RunNextTimer
    \/ TimerTick
    \/ TimerTickFn
    \/ Callback
    \/ TimerTickDone
    \/ TickerTick
    \/ AdvanceEnd

\* One controller that creates events and calls Add.
NextAdd ==
    \/ NewTimer
    \/ AfterFuncNop
    \/ NewTicker
    \/ AddBegin
    \/ Advance

SpecAdd == Init /\ [][NextAdd]_vars

\* One controller that creates events and calls Add and Set.
NextSet ==
    \/ NewTimer
    \/ AfterFuncNop
    \/ NewTicker
    \/ AddBegin
    \/ SetBegin
    \/ Advance

SpecSet == Init /\ [][NextSet]_vars

\* One controller that also stops, resets and drains, and whose callbacks
\* stop and reset.
Next ==
    \/ NewTimer
    \/ AfterFunc
    \/ NewTicker
    \/ AddBegin
    \/ Advance
    \/ Stop
    \/ Reset
    \/ Recv

Spec == Init /\ [][Next]_vars

TypeOK ==
    /\ now \in 0..(MaxTime + MaxDur)
    /\ pc \in {"idle", "loop", "tick", "fn", "afterfn", "final", "blocked"}
    /\ mu \in {"free", "ctl"}

\* ------------------------------------------- the heap variant (clock.go)
\* The registry is a binary heap kept by container/heap: the element at
\* index i of the slice is timers[i + 1], its parent timers[(i + 1) \div 2].
Swap(s, i, j) == [s EXCEPT ![i] = s[j], ![j] = s[i]]

\* heap.up(h, j), j counted from 1
RECURSIVE Up(_, _, _)
Up(E, s, j) ==
    LET i == j \div 2 IN
    IF j = 1 \/ ~Less(E, s[j], s[i]) THEN s ELSE Up(E, Swap(s, i, j), i)

\* heap.down(h, i, n): the slice it leaves and the index where i ended up
RECURSIVE Down(_, _, _, _)
Down(E, s, i, n) ==
    LET j1 == 2 * i IN
    IF j1 > n THEN <<s, i>>
    ELSE LET j == IF j1 + 1 <= n /\ Less(E, s[j1 + 1], s[j1])
                  THEN j1 + 1 ELSE j1 IN
         IF ~Less(E, s[j], s[i]) THEN <<s, i>>
         ELSE Down(E, Swap(s, i, j), j, n)

\* A push that leaves the new element at the end.
HeapPushUnsifted(E, s, x) == Append(s, x)

\* heap.Push(&m.timers, t)
HeapPush(E, s, x) == Up(E, Append(s, x), Len(s) + 1)

\* heap.Pop(&m.timers): the slice it leaves
HeapPop(E, s) ==
    LET n == Len(s) IN SubSeq(Down(E, Swap(s, 1, n), 1, n - 1)[1], 1, n - 1)

\* heap.Fix(&m.timers, i)
HeapFix(E, s, i) ==
    LET r == Down(E, s, i, Len(s)) IN
    IF r[2] > i THEN r[1] ELSE Up(E, r[1], i)

\* heap.Remove(&m.timers, i): the slice it leaves
HeapRemove(E, s, i) ==
    LET n == Len(s) IN
    IF n = i THEN SubSeq(s, 1, n - 1)
    ELSE LET r == Down(E, Swap(s, i, n), i, n - 1) IN
         SubSeq(IF r[2] > i THEN r[1] ELSE Up(E, r[1], i), 1, n - 1)

\* Mock.removeClockTimerLocked(t): the first index holding t, if any
RemoveClockTimerLocked(E, s, e) ==
    IF \E i \in 1..Len(s) : s[i] = e
    THEN HeapRemove(E, s,
            CHOOSE i \in 1..Len(s) :
                s[i] = e /\ \A j \in 1..(i - 1) : s[j] # e)
    ELSE s

\* Mock.Timer(d), and Mock.AfterFunc(d, f) when f is a callback
HeapTimerWith(d, f) ==
    /\ pc = "idle" /\ CanCreate
    /\ LET e == FreshId
           E == [ev EXCEPT ![e] =
                    [kind |-> "timer", next |-> TimeAdd(now, d), d |-> 0,
                     stopped |-> FALSE, c |-> <<>>, fn |-> f]] IN
        /\ ev' = E
        /\ timers' = HeapPush(E, timers, e)
        /\ h' = [h EXCEPT ![e] = Armed(now, d, TRUE)]
    /\ adv' = NoAdv /\ call' = NoCall
    /\ UNCHANGED <<now, mu, sync, pc, target, cur, tickNow, other>>

HeapTimer == \E d \in Durations : HeapTimerWith(d, NoFn)

HeapAfterFunc ==
    \E d \in Durations, f \in Callbacks :
        /\ CanCreate
        /\ f.op = "stop" => (f.arg = FreshId \/ ev[f.arg].kind = "timer")
        /\ HeapTimerWith(d, f)

\* Mock.Ticker(d)
HeapTicker ==
    \E d \in Periods :
        /\ pc = "idle" /\ CanCreate
        /\ LET e == FreshId
               E == [ev EXCEPT ![e] =
                        [kind |-> "ticker", next |-> TimeAdd(now, d), d |-> d,
                         stopped |-> FALSE, c |-> <<>>, fn |-> NoFn]] IN
            /\ ev' = E
            /\ timers' = HeapPush(E, timers, e)
            /\ h' = [h EXCEPT ![e] = Armed(now, d, TRUE)]
        /\ adv' = NoAdv /\ call' = NoCall
        /\ UNCHANGED <<now, mu, sync, pc, target, cur, tickNow, other>>

\* Mock.Add(d): m.Set(m.Now().Add(d)), up to the loop of Set
HeapAdd ==
    \E d \in 0..MaxTime :
        /\ pc = "idle"
        /\ now + d <= MaxTime
        /\ target' = TimeAdd(now, d)
        /\ pc' = "loop"
        /\ adv' = StartAdv("Add", d)
        /\ call' = NoCall
        /\ UNCHANGED <<now, timers, ev, mu, sync, cur, tickNow, h, other>>

\* Mock.Set(t), up to the loop
HeapSet ==
    \E t \in Targets :
        /\ pc = "idle"
        /\ target' = t
        /\ pc' = "loop"
        /\ adv' = StartAdv("Set", t)
        /\ call' = NoCall
        /\ UNCHANGED <<now, timers, ev, mu, sync, cur, tickNow, h, other>>

\* Mock.runNextTimer(until): under the mutex, the next event leaves the heap
\* (a Timer) or moves to its next period in it (a Ticker)
HeapRunNextTimer ==
    /\ pc = "loop" /\ mu = "free"
    /\ IF timers = <<>> \/ After(ev[timers[1]].next, target)
       THEN /\ pc' = "final"
            /\ UNCHANGED <<now, cur, tickNow, timers, ev>>
       ELSE LET t  == timers[1]
                at == ev[t].next IN
            /\ now' = MoveNow(at, target)
            /\ IF IsTimer(t)
               THEN /\ timers' = HeapPop(ev, timers)
                    /\ ev' = ev
               ELSE LET E == [ev EXCEPT ![t].next = TickerNext(@, ev[t].d)] IN
                    /\ ev' = E
                    /\ timers' = HeapFix(E, timers, 1)
            /\ cur' = t
            /\ tickNow' = at
            /\ pc' = "tick"
    /\ UNCHANGED <<mu, sync, target, h, adv, call, other>>

\* Timer.execute(now) of a Timer with a channel: a send that blocks on a full
\* channel, the mutex not held
HeapTimerExecute ==
    /\ pc = "tick"
    /\ IsTimer(cur) /\ ~HasFn(cur)
    /\ IF Len(ev[cur].c) >= ChanCap
       THEN /\ pc' = "blocked"
            /\ UNCHANGED <<ev, h, adv, cur, tickNow>>
       ELSE /\ ev' = [ev EXCEPT ![cur].c = Append(@, tickNow),
                                ![cur].stopped = TRUE]
            /\ Fired(cur)
            /\ pc' = "loop"
            /\ cur' = NoId /\ tickNow' = 0
    /\ UNCHANGED <<now, timers, mu, sync, target, call, other>>

\* Timer.execute(now) of an AfterFunc Timer, up to the call t.fn()
HeapTimerExecuteFn ==
    /\ pc = "tick"
    /\ IsTimer(cur) /\ HasFn(cur)
    /\ Fired(cur)
    /\ pc' = "fn"
    /\ UNCHANGED <<now, timers, ev, mu, sync, target, cur, tickNow, call, other>>

\* Timer.Stop() of the heap variant: the state it leaves
HeapStopResult(e, inFn) ==
    /\ ev' = [ev EXCEPT ![e].stopped = TRUE]
    /\ timers' = RemoveClockTimerLocked(ev, timers, e)
    /\ call' = Called("Stop", e, 0, ~ev[e].stopped, inFn)
    /\ h' = [h EXCEPT ![e].armed = FALSE, ![e].pristine = FALSE]

\* Timer.Reset(d) of the heap variant: the state it leaves
HeapResetResult(e, d, inFn) ==
    LET E == [ev EXCEPT ![e].next = TimeAdd(now, d), ![e].stopped = FALSE] IN
    /\ ev' = E
    /\ timers' = HeapPush(E, RemoveClockTimerLocked(ev, timers, e), e)
    /\ call' = Called("Reset", e, d, ~ev[e].stopped, inFn)
    /\ h' = [h EXCEPT ![e] = Armed(now, d, FALSE)]

\* t.fn() in the heap variant
HeapCallback ==
    /\ pc = "fn"
    /\ LET f == ev[cur].fn IN
        \/ /\ f.op = "nop"
           /\ UNCHANGED <<ev, timers, call, h>>
        \/ /\ f.op = "reset" /\ mu = "free"
           /\ HeapResetResult(cur, f.arg, TRUE)
        \/ /\ f.op = "stop" /\ mu = "free"
           /\ HeapStopResult(f.arg, TRUE)
    /\ pc' = "afterfn"
    /\ UNCHANGED <<now, mu, sync, target, cur, tickNow, adv, other>>

\* Timer.execute(now) after t.fn() returned: t.stopped = true
HeapTimerExecuteDone ==
    /\ pc = "afterfn"
    /\ ev' = [ev EXCEPT ![cur].stopped = TRUE]
    /\ pc' = "loop"
    /\ cur' = NoId /\ tickNow' = 0
    /\ UNCHANGED <<now, timers, mu, sync, target, h, adv, call, other>>

\* Ticker.execute(now): a send that gives up on a full channel
HeapTickerExecute ==
    /\ pc = "tick"
    /\ IsTicker(cur)
    /\ ev' = [ev EXCEPT
                ![cur].c = IF Len(@) < ChanCap THEN Append(@, tickNow) ELSE @]
    /\ Fired(cur)
    /\ pc' = "loop"
    /\ cur' = NoId /\ tickNow' = 0
    /\ UNCHANGED <<now, timers, mu, sync, target, call, other>>

\* Mock.Set(t) after the loop: the time moves to t only if t is later
HeapSetEnd ==
    /\ pc = "final" /\ mu = "free"
    /\ now' = IF After(target, now) THEN target ELSE now
    /\ pc' = "idle"
    /\ target' = 0
    /\ adv' = [adv EXCEPT !.done = TRUE]
    /\ UNCHANGED <<timers, ev, mu, sync, cur, tickNow, h, call, other>>

\* Timer.Stop() of the heap variant
HeapStop ==
    \E e \in Ids :
        /\ pc = "idle" /\ mu = "free"
        /\ IsTimer(e)
        /\ HeapStopResult(e, FALSE)
        /\ adv' = NoAdv
        /\ UNCHANGED <<now, mu, sync, pc, target, cur, tickNow, other>>

\* Timer.Reset(d) of the heap variant
HeapReset ==
    \E e \in Ids, d \in Durations :
        /\ pc = "idle" /\ mu = "free"
        /\ IsTimer(e)
        /\ HeapResetResult(e, d, FALSE)
        /\ adv' = NoAdv
        /\ UNCHANGED <<now, mu, sync, pc, target, cur, tickNow, other>>

HeapAdvance ==
    \/ HeapRunNextTimer
    \/ HeapTimerExecute
    \/ HeapTimerExecuteFn
    \/ HeapCallback
    \/ HeapTimerExecuteDone
    \/ HeapTickerExecute
    \/ HeapSetEnd

\* The heap variant under one controller.
NextHeap ==
    \/ HeapTimer
    \/ HeapAfterFunc
    \/ HeapTicker
    \/ HeapAdd
    \/ HeapAdvance
    \/ HeapStop
    \/ HeapReset

SpecHeap == Init /\ [][NextHeap]_vars

\* ------------------------------------- the first Mock (mock.go:98-365)
\* Its Add, Set, runNextTimer, removeClockTimer and internalTicker.Tick read
\* as those of UnsynchronizedMock, and so do its Timer and Ticker while no
\* starts are expected; its internalTimer.Tick keeps the mutex over t.fn().

\* internalTimer.Tick(now) of an AfterFunc Timer, up to the call t.fn():
\* the mutex is taken and kept
MockTimerTickFn ==
    /\ pc = "tick" /\ mu = "free"
    /\ IsTimer(cur) /\ HasFn(cur)
    /\ mu' = "ctl"
    /\ Fired(cur)
    /\ pc' = "fn"
    /\ UNCHANGED <<now, timers, ev, sync, target, cur, tickNow, call, other>>

\* internalTimer.Tick(now) of an AfterFunc Timer, after t.fn() returned
MockTimerTickDone ==
    /\ pc = "afterfn" /\ mu = "ctl"
    /\ ev' = [ev EXCEPT ![cur].stopped = TRUE]
    /\ timers' = RemoveClockTimer(ev, timers, cur)
    /\ mu' = "free"
    /\ pc' = "loop"
    /\ cur' = NoId /\ tickNow' = 0
    /\ UNCHANGED <<now, sync, target, h, adv, call, other>>

\* The first Mock under one controller.
NextMock ==
    \/ NewTimer
    \/ AfterFunc
    \/ NewTicker
    \/ AddBegin
    \/ RunNextTimer
    \/ TimerTick
    \/ MockTimerTickFn
    \/ Callback
    \/ MockTimerTickDone
    \/ TickerTick
    \/ AdvanceEnd
    \/ Stop
    \/ Reset

SpecMock == Init /\ [][NextMock]_vars

\* ------------------------------------------ Stop from another goroutine
\* Timer.Stop() called by a goroutine other than the advancing one, while an
\* Add is under way and the mutex is free.
RacingStop ==
    \E e \in Ids :
        /\ pc \in {"loop", "tick", "fn", "afterfn", "final"} /\ mu = "free"
        /\ IsTimer(e)
        /\ StopResult(e, FALSE)
        /\ UNCHANGED <<now, mu, sync, pc, target, cur, tickNow, adv, other>>

\* One controller that creates events and calls Add, and a goroutine that
\* stops Timers meanwhile.
NextRace ==
    \/ NewTimer
    \/ AfterFuncNop
    \/ NewTicker
    \/ AddBegin
    \/ Advance
    \/ RacingStop

SpecRace == Init /\ [][NextRace]_vars

\* ------------------------------ the expectations of UnsynchronizedMock
\* One controller declares expectations, waits and advances; worker
\* goroutines create Timers and Tickers and call Confirm whenever the mutex
\* is free.
MaxExpect   == MaxEvents
MaxConfirms == MaxEvents

Opt(o, n) == [o |-> o, n |-> n]

\* The option lists the controller passes to Add.
OptionLists ==
    {<<>>,
     <<Opt("FailOnUnexpectedUpcomingEvent", 0)>>,
     <<Opt("IgnoreUnexpectedUpcomingEvent", 0)>>,
     <<Opt("WaitBefore", 0)>>}
    \cup {<<Opt("ExpectUpcomingStarts", n), Opt(w, 0)>> :
            n \in 1..MaxExpect,
            w \in {"WaitForStartsAfter", "WaitForStartsBefore"}}
    \cup {<<Opt("ExpectUpcomingConfirms", n), Opt(w, 0)>> :
            n \in 1..MaxExpect, w \in {"WaitForConfirmsAfter", "WaitAfter"}}

\* sync.WaitGroup.Add panics when it takes the counter below zero.
Panicked(s) == s.newTimers < 0 \/ s.confirms < 0

\* A declaration that leaves the wait group alone.
ExpectedStartsUnawaited(s, n) ==
    [s EXCEPT !.expectingStarts = @ + n - s.recentTimers, !.recentTimers = 0]

\* The body of UnsynchronizedMock.ExpectStarts(timerCount); the panic of
\* newTimers.Add leaves recentTimers as it was.
ExpectedStarts(s, n) ==
    LET newStarts == n - s.recentTimers
        t == [s EXCEPT !.expectingStarts = @ + newStarts,
                       !.newTimers = @ + newStarts]
    IN  IF Panicked(t) THEN t ELSE [t EXCEPT !.recentTimers = 0]

\* The body of UnsynchronizedMock.ExpectConfirms(confirmCount)
ExpectedConfirms(s, n) ==
    LET newconfirms == n - s.recentConfirms
        t == [s EXCEPT !.expectingConfirms = @ + newconfirms,
                       !.confirms = @ + newconfirms]
    IN  IF Panicked(t) THEN t ELSE [t EXCEPT !.recentConfirms = 0]

\* What a declaration of n starts or confirms leaves of the history.
NotedStarts(s, t, n) ==
    [t EXCEPT !.loose = 0,
              !.due = IF s.expectingStarts = 0 /\ s.recentTimers = 0
                      THEN Cardinality(Used) + n ELSE 0]

NotedConfirms(s, t, n) ==
    [t EXCEPT !.dueC = IF s.expectingConfirms = 0 /\ s.recentConfirms = 0
                       THEN s.made + n ELSE 0]

\* What a creation leaves of the history.
NotedCreation(s, t) ==
    [t EXCEPT !.loose = IF s.expectingStarts > 0 \/ s.tForFail
                        THEN @ ELSE @ + 1]

\* The mutex stays locked behind a panic in ExpectStarts or ExpectConfirms.
AfterExpect(s) ==
    IF Panicked(s) THEN pc' = "panic" /\ mu' = "ctl" ELSE UNCHANGED <<pc, mu>>

\* UnsynchronizedMock.ExpectStarts(n)
ExpectStarts ==
    \E n \in 0..MaxExpect :
        /\ pc = "idle" /\ mu = "free"
        /\ sync.expectingStarts + n <= MaxExpect
        /\ sync' = NotedStarts(sync, ExpectedStarts(sync, n), n)
        /\ call' = [NoCall EXCEPT !.op = "ExpectStarts", !.d = n]
        /\ AfterExpect(sync')
        /\ adv' = NoAdv
        /\ UNCHANGED <<now, timers, ev, target, cur, tickNow, h, other>>

\* UnsynchronizedMock.ExpectConfirms(n)
ExpectConfirms ==
    \E n \in 0..MaxExpect :
        /\ pc = "idle" /\ mu = "free"
        /\ sync.expectingConfirms + n <= MaxExpect
        /\ sync' = NotedConfirms(sync, ExpectedConfirms(sync, n), n)
        /\ call' = [NoCall EXCEPT !.op = "ExpectConfirms", !.d = n]
        /\ AfterExpect(sync')
        /\ adv' = NoAdv
        /\ UNCHANGED <<now, timers, ev, target, cur, tickNow, h, other>>

\* The controller enters WaitForStart(), WaitForConfirm()
WaitCall ==
    \E w \in {"WaitForStart", "WaitForConfirm"} :
        /\ pc = "idle"
        /\ pc' = w
        /\ call' = [NoCall EXCEPT !.op = w]
        /\ adv' = NoAdv
        /\ UNCHANGED <<now, timers, ev, mu, sync, target, cur, tickNow, h, other>>

\* UnsynchronizedMock.WaitForStart(): m.newTimers.Wait() returns
WaitForStart ==
    /\ pc = "WaitForStart"
    /\ sync.newTimers = 0
    /\ pc' = "idle"
    /\ call' = [call EXCEPT !.ret = TRUE]
    /\ UNCHANGED <<now, timers, ev, mu, sync, target, cur, tickNow, h, adv, other>>

\* UnsynchronizedMock.WaitForConfirm(): m.confirms.Wait() returns
WaitForConfirm ==
    /\ pc = "WaitForConfirm"
    /\ sync.confirms = 0
    /\ pc' = "idle"
    /\ call' = [call EXCEPT !.ret = TRUE]
    /\ UNCHANGED <<now, timers, ev, mu, sync, target, cur, tickNow, h, adv, other>>

\* The delays and periods the workers ask for, and the durations the
\* controller passes to Add next to its options.
WorkerDelays == {MaxDur}
OptionSteps  == {0, MaxDur}

\* UnsynchronizedMock.NewTimer(d) called by a worker
RacingNewTimer ==
    \E d \in WorkerDelays :
        /\ mu = "free" /\ CanCreate
        /\ LET e == FreshId IN
            /\ ev' = [ev EXCEPT ![e] =
                        [kind |-> "timer", next |-> TimeAdd(now, d), d |-> 0,
                         stopped |-> FALSE, c |-> <<>>, fn |-> NoFn]]
            /\ timers' = Append(timers, e)
            /\ h' = [h EXCEPT ![e] = Armed(now, d, TRUE)]
        /\ sync' = NotedCreation(sync, StartedTimer(sync))
        /\ UNCHANGED <<now, mu, pc, target, cur, tickNow, adv, call, other>>

\* UnsynchronizedMock.NewTicker(d) called by a worker
RacingNewTicker ==
    \E d \in WorkerDelays :
        /\ mu = "free" /\ CanCreate
        /\ LET e == FreshId IN
            /\ ev' = [ev EXCEPT ![e] =
                        [kind |-> "ticker", next |-> TimeAdd(now, d), d |-> d,
                         stopped |-> FALSE, c |-> <<>>, fn |-> NoFn]]
            /\ timers' = Append(timers, e)
            /\ h' = [h EXCEPT ![e] = Armed(now, d, TRUE)]
        /\ sync' = NotedCreation(sync, StartedTicker(sync))
        /\ UNCHANGED <<now, mu, pc, target, cur, tickNow, adv, call, other>>

\* A Confirm that never reports.
ConfirmedSilently(s) ==
    IF s.expectingConfirms > 0
    THEN [s EXCEPT !.expectingConfirms = @ - 1, !.confirms = @ - 1]
    ELSE [s EXCEPT !.recentConfirms = @ + 1]

\* The body of UnsynchronizedMock.Confirm()
Confirmed(s) ==
    IF s.expectingConfirms > 0
    THEN [s EXCEPT !.expectingConfirms = @ - 1, !.confirms = @ - 1]
    ELSE IF s.tForFail
    THEN [s EXCEPT !.failures = @ + 1]
    ELSE [s EXCEPT !.recentConfirms = @ + 1]

\* UnsynchronizedMock.Confirm() called by a worker
Confirm ==
    /\ mu = "free"
    /\ sync.made < MaxConfirms
    /\ sync' = [Confirmed(sync) EXCEPT !.made = @ + 1]
    /\ UNCHANGED <<now, timers, ev, mu, pc, target, cur, tickNow, h, adv, call, other>>

\* A wait that returns at once.
PriorReadyAlways(o, s) == TRUE

\* What an option waits for before the advance.
PriorReady(o, s) ==
    CASE o.o = "WaitForStartsBefore"   -> s.newTimers = 0
      [] o.o = "WaitForConfirmsBefore" -> s.confirms = 0
      [] o.o = "WaitBefore"            -> s.newTimers = 0 /\ s.confirms = 0
      [] OTHER                         -> TRUE

\* What an option does to the counters before the advance.
Upcoming(o, s) ==
    CASE o.o = "FailOnUnexpectedUpcomingEvent" -> [s EXCEPT !.tForFail = TRUE]
      [] o.o = "IgnoreUnexpectedUpcomingEvent" -> [s EXCEPT !.tForFail = FALSE]
      [] o.o = "ExpectUpcomingStarts"   -> ExpectedStarts(s, o.n)
      [] o.o = "ExpectUpcomingConfirms" -> ExpectedConfirms(s, o.n)
      [] OTHER -> s

\* UnsynchronizedMock.Add(d, opts...): the call
AddWith ==
    \E d \in OptionSteps, o \in OptionLists :
        /\ pc = "idle"
        /\ now + d <= MaxTime
        /\ \A k \in 1..Len(o) :
            /\ o[k].o = "ExpectUpcomingStarts" =>
                    sync.expectingStarts + o[k].n <= MaxExpect
            /\ o[k].o = "ExpectUpcomingConfirms" =>
                    sync.expectingConfirms + o[k].n <= MaxExpect
        /\ pc' = "prior"
        /\ adv' = [NoAdv EXCEPT !.op = "Add", !.arg = d, !.opts = o]
        /\ call' = NoCall
        /\ UNCHANGED <<now, timers, ev, mu, sync, target, cur, tickNow, h, other>>

\* The first loop of Add: opt.PriorEventsOption(m) for every option.  A wait
\* group that has come to zero stays there while the controller waits, so
\* the loop ends in a state where every wait it made is satisfied.
PriorEventsOption ==
    /\ pc = "prior"
    /\ \A k \in 1..Len(adv.opts) : PriorReady(adv.opts[k], sync)
    /\ pc' = "upcoming"
    /\ adv' = [adv EXCEPT !.i = 1]
    /\ UNCHANGED <<now, timers, ev, mu, sync, target, cur, tickNow, h, call, other>>

\* The second loop of Add: opt.UpcomingEventsOption(m), one option a step;
\* past the last one, t := m.now.Add(d).  There is no third loop.
UpcomingEventsOption ==
    /\ pc = "upcoming" /\ mu = "free"
    /\ IF adv.i <= Len(adv.opts)
       THEN /\ sync' = Upcoming(adv.opts[adv.i], sync)
            /\ adv' = [adv EXCEPT !.i = @ + 1]
            /\ IF Panicked(sync') THEN pc' = "panic" /\ mu' = "ctl"
                                  ELSE UNCHANGED <<pc, mu>>
            /\ UNCHANGED target
       ELSE /\ target' = TimeAdd(now, adv.arg)
            /\ pc' = "loop"
            /\ adv' = [StartAdv("Add", adv.arg) EXCEPT !.opts = adv.opts]
            /\ UNCHANGED <<sync, mu>>
    /\ UNCHANGED <<now, timers, ev, cur, tickNow, h, call, other>>

\* The controller declares and waits; the workers create and confirm.
NextWait ==
    \/ ExpectStarts
    \/ ExpectConfirms
    \/ WaitCall
    \/ WaitForStart
    \/ WaitForConfirm
    \/ RacingNewTimer
    \/ RacingNewTicker
    \/ Confirm

\* NewUnsynchronizedMock(opts...): the options are applied as upcoming ones,
\* so the mock starts with or without a fail-fast sink.
NewUnsynchronizedMock ==
    /\ now = Epoch
    /\ timers = <<>>
    /\ ev = [e \in Ids |-> NoEvent]
    /\ mu = "free"
    /\ \E f \in BOOLEAN : sync = [NoSync EXCEPT !.tForFail = f]
    /\ pc = "idle"
    /\ target = 0
    /\ cur = NoId
    /\ tickNow = 0
    /\ h = [e \in Ids |-> NoHist]
    /\ adv = NoAdv
    /\ call = NoCall
    /\ other = NoOther

SpecWait == NewUnsynchronizedMock /\ [][NextWait]_vars

\* A goroutine parked in WaitGroup.Wait is made runnable when the counter
\* comes to zero, and the scheduler runs every runnable goroutine.
SpecWaitLive ==
    SpecWait /\ WF_vars(WaitForStart) /\ WF_vars(WaitForConfirm)

\* The controller calls Add with options; the workers create and confirm.
NextSync ==
    \/ RacingNewTimer
    \/ RacingNewTicker
    \/ Confirm
    \/ AddWith
    \/ PriorEventsOption
    \/ UpcomingEventsOption
    \/ RunNextTimer
    \/ TimerTick
    \/ TickerTick
    \/ AdvanceEnd

SpecSync == Init /\ [][NextSync]_vars

\* --------------------------------- the expectations of the first Mock
\* Mock.ExpectStarts(timerCount): expectingStarts++, and the wait group takes
\* timerCount - recentTimers.
MockExpectedStarts(s, n) ==
    LET t == [s EXCEPT !.expectingStarts = @ + 1,
                       !.newTimers = @ + n - s.recentTimers]
    IN  IF Panicked(t) THEN t ELSE [t EXCEPT !.recentTimers = 0]

\* Mock.ExpectConfirms(confirmCount): expectingConfirms++, and it is
\* newTimers that takes confirmCount - recentConfirms.
MockExpectedConfirms(s, n) ==
    LET t == [s EXCEPT !.expectingConfirms = @ + 1,
                       !.newTimers = @ + n - s.recentConfirms]
    IN  IF Panicked(t) THEN t ELSE [t EXCEPT !.recentConfirms = 0]

\* The bookkeeping of Mock.Timer: Done() without a decrement of
\* expectingStarts.
MockStartedTimer(s) ==
    IF s.expectingStarts > 0
    THEN [s EXCEPT !.newTimers = @ - 1]
    ELSE IF s.tForFail
    THEN [s EXCEPT !.failures = @ + 1]
    ELSE [s EXCEPT !.recentTimers = @ + 1]

\* Mock.ExpectStarts(n), Mock.ExpectConfirms(n)
MockExpect ==
    \E n \in 0..MaxExpect, op \in {"ExpectStarts", "ExpectConfirms"} :
        /\ pc = "idle" /\ mu = "free"
        /\ sync.newTimers + n <= MaxExpect
        /\ sync.expectingStarts + sync.expectingConfirms < MaxExpect
        /\ sync' = IF op = "ExpectStarts"
                   THEN NotedStarts(sync, MockExpectedStarts(sync, n), n)
                   ELSE NotedConfirms(sync, MockExpectedConfirms(sync, n), n)
        /\ call' = [NoCall EXCEPT !.op = op, !.d = n]
        /\ AfterExpect(sync')
        /\ adv' = NoAdv
        /\ UNCHANGED <<now, timers, ev, target, cur, tickNow, h, other>>

\* Mock.WaitForStart(), Mock.WaitForConfirm(): the Wait returns; then, under
\* the mutex, expectingStarts = 0, expectingConfirms = 0.
MockWait ==
    /\ mu = "free"
    /\ \/ /\ pc = "WaitForStart" /\ sync.newTimers = 0
          /\ pc' = "WaitForStartEnd"
          /\ UNCHANGED <<sync, call>>
       \/ /\ pc = "WaitForConfirm" /\ sync.confirms = 0
          /\ pc' = "WaitForConfirmEnd"
          /\ UNCHANGED <<sync, call>>
       \/ /\ pc = "WaitForStartEnd"
          /\ sync' = [sync EXCEPT !.expectingStarts = 0]
          /\ pc' = "idle"
          /\ call' = [call EXCEPT !.ret = TRUE]
       \/ /\ pc = "WaitForConfirmEnd"
          /\ sync' = [sync EXCEPT !.expectingConfirms = 0]
          /\ pc' = "idle"
          /\ call' = [call EXCEPT !.ret = TRUE]
    /\ UNCHANGED <<now, timers, ev, mu, target, cur, tickNow, h, adv, other>>

\* Mock.Timer(d), Mock.Ticker(d) called by a worker; a Done() that takes the
\* wait group below zero panics.
MockRacingCreate ==
    \E d \in WorkerDelays, k \in {"timer", "ticker"} :
        /\ mu = "free" /\ pc # "panic" /\ CanCreate
        /\ LET e == FreshId IN
            /\ ev' = [ev EXCEPT ![e] =
                        [kind |-> k, next |-> TimeAdd(now, d),
                         d |-> IF k = "ticker" THEN d ELSE 0,
                         stopped |-> FALSE, c |-> <<>>, fn |-> NoFn]]
            /\ timers' = Append(timers, e)
            /\ h' = [h EXCEPT ![e] = Armed(now, d, TRUE)]
        /\ sync' = NotedCreation(sync,
                    IF k = "ticker"
                    THEN MockStartedTimer([sync EXCEPT !.recentTimers = @ + 1])
                    ELSE MockStartedTimer(sync))
        /\ pc' = IF Panicked(sync') THEN "panic" ELSE pc
        /\ UNCHANGED <<now, mu, target, cur, tickNow, adv, call, other>>

NextMockWait ==
    \/ MockExpect
    \/ WaitCall
    \/ MockWait
    \/ MockRacingCreate

SpecMockWait ==
    Init /\ [][NextMockWait]_vars /\ WF_vars(MockWait)

\* --------------------------------- the hook variant (unnamed/part_003)
\* Its runNextTimer and the end of its Add read as those of
\* UnsynchronizedMock.  Its Ticker has a channel of 1000 values and its
\* internalTicker.Tick sends with a plain, blocking send.
HookTickerCap == 1000   \* make(chan time.Time, 1000)

\* The durations the controller passes to Add: none, and one that spans more
\* periods than the channel of a Ticker holds.
HookSpans == {0, HookTickerCap + 1}

HookMaxTime == HookTickerCap + 1

\* mockClock.Ticker(d)
HookTicker ==
    \E d \in Periods :
        /\ pc = "idle" /\ mu = "free" /\ CanCreate
        /\ LET e == FreshId IN
            /\ ev' = [ev EXCEPT ![e] =
                        [kind |-> "ticker", next |-> TimeAdd(now, d), d |-> d,
                         stopped |-> FALSE, c |-> <<>>, fn |-> NoFn]]
            /\ timers' = Append(timers, e)
            /\ h' = [h EXCEPT ![e] = Armed(now, d, TRUE)]
        /\ adv' = NoAdv /\ call' = NoCall
        /\ UNCHANGED <<now, mu, sync, pc, target, cur, tickNow, other>>

\* mockClock.Add(d), d >= 0, up to the loop
HookAdd ==
    \E d \in HookSpans :
        /\ pc = "idle" /\ mu = "free"
        /\ now + d <= HookMaxTime
        /\ target' = TimeAdd(now, d)
        /\ pc' = "loop"
        /\ adv' = [StartAdv("Add", d) EXCEPT !.due0 = <<>>]
        /\ call' = NoCall
        /\ UNCHANGED <<now, timers, ev, mu, sync, cur, tickNow, h, other>>

\* internalTicker.Tick(now) of the hook variant: t.c <- now blocks on a full
\* channel; then t.next = now.Add(t.d)
HookTickerTick ==
    /\ pc = "tick"
    /\ IsTicker(cur)
    /\ IF Len(ev[cur].c) >= HookTickerCap
       THEN /\ pc' = "blocked"
            /\ UNCHANGED <<ev, h, adv, cur, tickNow>>
       ELSE /\ ev' = [ev EXCEPT ![cur].c = Append(@, tickNow),
                                ![cur].next = TickerNext(tickNow, ev[cur].d)]
            /\ Fired(cur)
            /\ pc' = "loop"
            /\ cur' = NoId /\ tickNow' = 0
    /\ UNCHANGED <<now, timers, mu, sync, target, call, other>>

\* The Tickers of the hook variant under one controller that never reads.
NextHookTicker ==
    \/ HookTicker
    \/ HookAdd
    \/ RunNextTimer
    \/ HookTickerTick
    \/ AdvanceEnd

SpecHookTicker == Init /\ [][NextHookTicker]_vars

\* ------------------------------------------------------------------ Sleep
\* UnsynchronizedMock.Sleep(d) is <-m.After(d), After(d) is NewTimer(d).C:
\* the call, up to the receive the sleeper blocks in.
Sleep == NewTimer

\* The receive of Sleep returns: the sleeper, a goroutine of its own, takes
\* the value from the channel.
SleepReturn ==
    \E e \in Ids :
        /\ IsTimer(e)
        /\ ev[e].c # <<>>
        /\ ev' = [ev EXCEPT ![e].c = Tail(@)]
        /\ UNCHANGED <<now, timers, mu, sync, pc, target, cur, tickNow, h,
                       adv, call, other>>

\* Sleepers, and one controller that calls Add.
NextSleep ==
    \/ Sleep
    \/ AddBegin
    \/ RunNextTimer
    \/ TimerTick
    \/ AdvanceEnd
    \/ SleepReturn

\* A goroutine blocked in a receive runs once a value is in the channel.
SpecSleep == Init /\ [][NextSleep]_vars /\ WF_vars(SleepReturn)

\* ---------------------------------------------- Timers with a channel
\* One controller that creates Timers, calls Add, stops, resets and drains;
\* no callbacks.
NextReset ==
    \/ NewTimer
    \/ AddBegin
    \/ RunNextTimer
    \/ TimerTick
    \/ AdvanceEnd
    \/ Stop
    \/ Reset
    \/ Recv

SpecReset == Init /\ [][NextReset]_vars

\* ----------------------------------------- Reset from another goroutine
\* Timer.Reset(d) called by a goroutine other than the controller, whenever
\* the mutex is free.
RacingReset ==
    \E e \in Ids, d \in Durations :
        /\ pc \in {"idle", "loop", "tick", "fn", "afterfn", "final"}
        /\ mu = "free"
        /\ IsTimer(e)
        /\ ResetResult(e, d, FALSE)
        /\ UNCHANGED <<now, mu, sync, pc, target, cur, tickNow, adv, other>>

\* The consumer of TestClock_Timer_Reset_Unlock: <-timer.C, then
\* timer.Reset(d), once for each Add of the controller.
ConsumerReset ==
    /\ call.op = "none"
    /\ RacingReset
    /\ h[call'.id].fires > 0
    /\ ev[call'.id].c = <<>>

\* One controller that creates Timers and calls Add, and a consumer that
\* reads their channels and resets them meanwhile.
NextUnlock ==
    \/ NewTimer
    \/ AddBegin
    \/ RunNextTimer
    \/ TimerTick
    \/ AdvanceEnd
    \/ SleepReturn
    \/ ConsumerReset

SpecUnlock == Init /\ [][NextUnlock]_vars

\* ---------------------------------------------------- Tickers stopped, reset
\* A Reset that leaves the scheduled tick where it was.
TickerResetKeepsDue(e, dur) ==
    /\ ev' = [ev EXCEPT ![e].d = dur]
    /\ h' = [h EXCEPT ![e] = [Armed(now, dur, FALSE) EXCEPT !.armed = h[e].armed]]

\* Ticker.Reset(dur): t.d = dur; t.next = t.mock.now.Add(dur)
TickerResetResult(e, dur) ==
    /\ ev' = [ev EXCEPT ![e].d = dur, ![e].next = TimeAdd(now, dur)]
    /\ h' = [h EXCEPT ![e] = [Armed(now, dur, FALSE) EXCEPT !.armed = h[e].armed]]

\* Ticker.Reset(dur), called by the controller between two advances
TickerReset ==
    \E e \in Ids, dur \in Periods :
        /\ pc = "idle" /\ mu = "free"
        /\ IsTicker(e)
        /\ TickerResetResult(e, dur)
        /\ call' = Called("Reset", e, dur, FALSE, FALSE)
        /\ adv' = NoAdv
        /\ UNCHANGED <<now, timers, mu, sync, pc, target, cur, tickNow, other>>

\* Ticker.Stop(), called by the controller between two advances
TickerStop ==
    \E e \in Ids :
        /\ pc = "idle" /\ mu = "free"
        /\ IsTicker(e)
        /\ timers' = RemoveClockTimer(ev, timers, e)
        /\ h' = [h EXCEPT ![e].armed = FALSE, ![e].pristine = FALSE]
        /\ call' = Called("Stop", e, 0, FALSE, FALSE)
        /\ adv' = NoAdv
        /\ UNCHANGED <<now, ev, mu, sync, pc, target, cur, tickNow, other>>

\* One controller that creates Tickers, stops and resets them, and calls Add.
NextTicker ==
    \/ NewTicker
    \/ AddBegin
    \/ RunNextTimer
    \/ TickerTick
    \/ AdvanceEnd
    \/ TickerReset
    \/ TickerStop

SpecTicker == Init /\ [][NextTicker]_vars

\* ------------------------------------------------ Tickers with a consumer
\* <-ticker.C in the consumer goroutine, whenever a tick is buffered
TickerRecv ==
    \E e \in Ids :
        /\ IsTicker(e)
        /\ ev[e].c # <<>>
        /\ ev' = [ev EXCEPT ![e].c = Tail(@)]
        /\ UNCHANGED <<now, timers, mu, sync, pc, target, cur, tickNow, h, adv, call, other>>

\* One controller that creates Tickers and calls Add, and a consumer that
\* reads their channels meanwhile.
NextMulti ==
    \/ NewTicker
    \/ AddBegin
    \/ RunNextTimer
    \/ TickerTick
    \/ AdvanceEnd
    \/ TickerRecv

SpecMulti == Init /\ [][NextMulti]_vars

\* ------------------------- Stop and Reset from another goroutine, heap variant
\* Timer.Stop() or Timer.Reset(d) of the heap variant, called by a goroutine
\* other than the controller, between the locked part of runNextTimer and
\* the end of execute, where the mutex is free.
HeapRacingCall ==
    \E e \in Ids :
        /\ pc = "tick"
        /\ mu = "free"
        /\ IsTimer(e)
        /\ \/ HeapStopResult(e, FALSE)
           \/ \E d \in Durations : HeapResetResult(e, d, FALSE)
        /\ UNCHANGED <<now, mu, sync, pc, target, cur, tickNow, adv, other>>

NextHeapRace ==
    \/ HeapTimer
    \/ HeapAdd
    \/ HeapRunNextTimer
    \/ HeapTimerExecute
    \/ HeapSetEnd
    \/ HeapRacingCall

SpecHeapRace == Init /\ [][NextHeapRace]_vars

\* ------------------------------- two goroutines in Add, heap variant
\* Mock.Add(d) of the controller, made before the second goroutine has begun
ConcAdd ==
    /\ other.pc = "none"
    /\ HeapAdd

\* Mock.Add(d) of the second goroutine while the controller is in Add, up to
\* the loop of Set: t = m.Now().Add(d), read under the mutex
OtherAdd ==
    \E d \in 0..MaxTime :
        /\ other.pc = "none"
        /\ pc \in {"loop", "tick", "final"}
        /\ mu = "free"
        /\ now + d <= MaxTime
        /\ other' = [NoOther EXCEPT !.pc = "loop", !.d = d,
                                    !.target = TimeAdd(now, d)]
        /\ UNCHANGED <<now, timers, ev, mu, sync, pc, target, cur, tickNow, h,
                       adv, call>>

\* Mock.runNextTimer(until) in the second goroutine
OtherRunNextTimer ==
    /\ other.pc = "loop" /\ mu = "free"
    /\ IF timers = <<>> \/ After(ev[timers[1]].next, other.target)
       THEN /\ other' = [other EXCEPT !.pc = "final"]
            /\ UNCHANGED <<now, timers, ev>>
       ELSE LET t  == timers[1]
                at == ev[t].next IN
            /\ now' = MoveNow(at, other.target)
            /\ IF IsTimer(t)
               THEN /\ timers' = HeapPop(ev, timers)
                    /\ ev' = ev
               ELSE LET E == [ev EXCEPT ![t].next = TickerNext(@, ev[t].d)] IN
                    /\ ev' = E
                    /\ timers' = HeapFix(E, timers, 1)
            /\ other' = [other EXCEPT !.pc = "tick", !.cur = t, !.tickNow = at]
    /\ UNCHANGED <<mu, sync, pc, target, cur, tickNow, h, adv, call>>

\* Timer.execute(now) and Ticker.execute(now) in the second goroutine
OtherExecute ==
    /\ other.pc = "tick"
    /\ LET t == other.cur IN
        IF IsTimer(t) /\ Len(ev[t].c) >= ChanCap
        THEN /\ other' = [other EXCEPT !.pc = "blocked"]
             /\ UNCHANGED <<ev, h>>
        ELSE /\ ev' = [ev EXCEPT
                        ![t].c = IF Len(@) < ChanCap
                                 THEN Append(@, other.tickNow) ELSE @,
                        ![t].stopped = IF IsTimer(t) THEN TRUE ELSE @]
             /\ h' = [h EXCEPT ![t].fires = IF @ < FiresCap THEN @ + 1 ELSE @,
                               ![t].armed = IF IsTimer(t) THEN FALSE ELSE @]
             /\ other' = [other EXCEPT !.pc = "loop", !.cur = NoId,
                                       !.tickNow = 0]
    /\ UNCHANGED <<now, timers, mu, sync, pc, target, cur, tickNow, adv, call>>

\* Mock.Set(t) after the loop, in the second goroutine
OtherSetEnd ==
    /\ other.pc = "final" /\ mu = "free"
    /\ now' = IF After(other.target, now) THEN other.target ELSE now
    /\ other' = [other EXCEPT !.pc = "done", !.target = 0]
    /\ UNCHANGED <<timers, ev, mu, sync, pc, target, cur, tickNow, h, adv, call>>

NextConc ==
    \/ HeapTimer
    \/ HeapTicker
    \/ ConcAdd
    \/ HeapRunNextTimer
    \/ HeapTimerExecute
    \/ HeapTickerExecute
    \/ HeapSetEnd
    \/ OtherAdd
    \/ OtherRunNextTimer
    \/ OtherExecute
    \/ OtherSetEnd

SpecConc == Init /\ [][NextConc]_vars

\* ------------------------------- the Timers of the hook variant (part_003)
\* History of a creation: op, id, d as in a call; before, after: the times
\* handed to the HookBeforeTimer and HookAfterTimer hooks, in order, one hook
\* being set at each point for every caller.
HookCalled(op, e, d, before, after) ==
    [op |-> op, id |-> e, d |-> d, at |-> now, before |-> before,
     after |-> after]

HookCreations == {"Timer", "After", "AfterFunc", "Sleep"}

\* mockClock.Timer(d), After(d), AfterFunc(d, f) and the After(d) of Sleep(d).
\* timerInternal calls the HookBeforeTimer hooks, then sends at once when the
\* Timer is due and registers it otherwise; Timer calls the HookAfterTimer
\* hooks behind it, and AfterFunc sets the callback on what Timer returns.
HookCreate ==
    \E op \in HookCreations, d \in Durations :
        /\ pc = "idle" /\ mu = "free" /\ CanCreate
        /\ LET e     == FreshId
               next  == TimeAdd(now, d)
               due   == ~After(next, now)
               viaT  == op \in {"Timer", "AfterFunc"}
               isFn  == op = "AfterFunc" IN
            /\ ev' = [ev EXCEPT ![e] =
                        [kind |-> "timer", next |-> next, d |-> 0,
                         stopped |-> FALSE,
                         c |-> IF due THEN <<now>> ELSE <<>>,
                         fn |-> IF isFn THEN [op |-> "nop", arg |-> 0]
                                        ELSE NoFn]]
            /\ timers' = IF due THEN timers ELSE Append(timers, e)
            /\ h' = [h EXCEPT ![e] =
                        IF due /\ ~isFn
                        THEN [Armed(now, d, TRUE) EXCEPT !.fires = 1,
                                                         !.armed = FALSE]
                        ELSE Armed(now, d, TRUE)]
            /\ call' = HookCalled(op, e, d, <<now>>,
                                  IF viaT THEN <<now>> ELSE <<>>)
        /\ adv' = NoAdv
        /\ UNCHANGED <<now, mu, sync, pc, target, cur, tickNow, other>>

\* An Add that takes every duration.
HookAddUnchecked ==
    \E d \in (-1)..MaxTime :
        /\ pc = "idle" /\ mu = "free"
        /\ now + d <= MaxTime
        /\ target' = TimeAdd(now, d)
        /\ pc' = "loop"
        /\ adv' = StartAdv("Add", d)
        /\ call' = NoCall
        /\ UNCHANGED <<now, timers, ev, mu, sync, cur, tickNow, h, other>>

\* mockClock.Add(d), up to the loop: it panics on d < 0 before anything else
HookAddAny ==
    \E d \in (-1)..MaxTime :
        /\ pc = "idle" /\ mu = "free"
        /\ now + d <= MaxTime
        /\ IF d < 0
           THEN /\ pc' = "panic"
                /\ adv' = [NoAdv EXCEPT !.op = "Add", !.arg = d, !.now0 = now]
                /\ UNCHANGED target
           ELSE /\ target' = TimeAdd(now, d)
                /\ pc' = "loop"
                /\ adv' = StartAdv("Add", d)
        /\ call' = NoCall
        /\ UNCHANGED <<now, timers, ev, mu, sync, cur, tickNow, h, other>>

\* internalTimer.Tick(now) of the hook variant: t.fn() or the blocking send
\* t.c <- now, neither under a lock; then removeClockTimer and stopped = true
HookTimerTick ==
    /\ pc = "tick"
    /\ IsTimer(cur)
    /\ IF ~HasFn(cur) /\ Len(ev[cur].c) >= ChanCap
       THEN /\ pc' = "blocked"
            /\ UNCHANGED <<ev, timers, h, adv, cur, tickNow>>
       ELSE /\ ev' = [ev EXCEPT
                        ![cur].c = IF HasFn(cur) THEN @ ELSE Append(@, tickNow),
                        ![cur].stopped = TRUE]
            /\ timers' = RemoveClockTimer(ev', timers, cur)
            /\ Fired(cur)
            /\ pc' = "loop"
            /\ cur' = NoId /\ tickNow' = 0
    /\ UNCHANGED <<now, mu, sync, target, call, other>>

\* The Timers of the hook variant under one controller.
NextHook ==
    \/ HookCreate
    \/ HookAddAny
    \/ RunNextTimer
    \/ HookTimerTick
    \/ AdvanceEnd

SpecHook == Init /\ [][NextHook]_vars

\* ------------------------------------ the Expect variant (unnamed/part_000)
\* Its counters: totalTimers, the wait group newTimers, and expecting.
ExpectNewMock ==
    /\ now = Epoch
    /\ timers = <<>>
    /\ ev = [e \in Ids |-> NoEvent]
    /\ mu = "free"
    /\ sync = [totalTimers |-> 0, newTimers |-> 0, expecting |-> FALSE]
    /\ pc = "idle"
    /\ target = 0
    /\ cur = NoId
    /\ tickNow = 0
    /\ h = [e \in Ids |-> NoHist]
    /\ adv = NoAdv
    /\ call = NoCall
    /\ other = NoOther

\* Mock.Expect(timerCount): expecting = true;
\* newTimers.Add(timerCount - totalTimers), which panics below zero
Expect ==
    \E timerCount \in 0..MaxExpect :
        /\ pc = "idle" /\ mu = "free"
        /\ sync.newTimers + timerCount <= MaxExpect
        /\ sync' = [sync EXCEPT !.expecting = TRUE,
                                !.newTimers = @ + timerCount - sync.totalTimers]
        /\ IF sync'.newTimers < 0 THEN pc' = "panic" /\ mu' = "ctl"
                                  ELSE UNCHANGED <<pc, mu>>
        /\ call' = [NoCall EXCEPT !.op = "Expect", !.d = timerCount]
        /\ adv' = NoAdv
        /\ UNCHANGED <<now, timers, ev, target, cur, tickNow, h, other>>

\* Mock.WaitForStart(): m.newTimers.Wait() returns when the counter is zero;
\* then, under the mutex, expecting = false
ExpectWaitForStart ==
    /\ mu = "free"
    /\ \/ /\ pc = "idle"
          /\ sync.newTimers = 0
          /\ pc' = "waited"
          /\ sync' = sync
       \/ /\ pc = "waited"
          /\ pc' = "idle"
          /\ sync' = [sync EXCEPT !.expecting = FALSE]
    /\ UNCHANGED <<now, timers, ev, mu, target, cur, tickNow, h, adv, call, other>>

\* Mock.Timer(d) and Mock.Ticker(d) of the Expect variant, called by a
\* worker: totalTimers++, and newTimers.Done() while expecting
ExpectRacingCreate ==
    \E k \in {"timer", "ticker"}, d \in Periods :
        /\ pc \in {"idle", "waited"} /\ mu = "free" /\ CanCreate
        /\ LET e == FreshId IN
            /\ ev' = [ev EXCEPT ![e] =
                        [kind |-> k, next |-> TimeAdd(now, d),
                         d |-> IF k = "ticker" THEN d ELSE 0,
                         stopped |-> FALSE, c |-> <<>>, fn |-> NoFn]]
            /\ timers' = Append(timers, e)
            /\ h' = [h EXCEPT ![e] = Armed(now, d, TRUE)]
        /\ sync' = [sync EXCEPT
                        !.totalTimers = @ + 1,
                        !.newTimers = IF sync.expecting THEN @ - 1 ELSE @]
        /\ IF sync'.newTimers < 0 THEN pc' = "panic" /\ mu' = "ctl"
                                  ELSE UNCHANGED <<pc, mu>>
        /\ UNCHANGED <<now, target, cur, tickNow, adv, call, other>>

\* The controller declares and waits; the workers create.
NextExpect ==
    \/ Expect
    \/ ExpectWaitForStart
    \/ ExpectRacingCreate

SpecExpect == ExpectNewMock /\ [][NextExpect]_vars

\* --------------- Stop and Reset from another goroutine, hook variant
\* A Timer of the hook variant has its own lock next to the mutex of the
\* clock.  The other goroutine is in Timer.Stop() behind removeClockTimer
\* (other.pc = "stop2") or in Timer.Reset(d) with the Timer's lock held and
\* the mutex still to take (other.pc = "reset2"); other.cur is its Timer.
TimerLocked(e) == other.pc = "reset2" /\ other.cur = e

\* Timer.Stop() of the hook variant: registered := !t.stopped and
\* removeClockTimer under the mutex; then t.stopped = true under the Timer's
\* lock
OtherStop ==
    /\ pc \in {"loop", "tick", "afterfn", "final"}
    /\ mu = "free"
    /\ \/ \E e \in Ids :
            /\ other.pc = "none"
            /\ IsTimer(e)
            /\ timers' = RemoveClockTimer(ev, timers, e)
            /\ call' = Called("Stop", e, 0, ~ev[e].stopped, FALSE)
            /\ h' = [h EXCEPT ![e].armed = FALSE, ![e].pristine = FALSE]
            /\ other' = [NoOther EXCEPT !.pc = "stop2", !.cur = e]
            /\ ev' = ev
       \/ /\ other.pc = "stop2"
          /\ ev' = [ev EXCEPT ![other.cur].stopped = TRUE]
          /\ other' = NoOther
          /\ UNCHANGED <<timers, call, h>>
    /\ UNCHANGED <<now, mu, sync, pc, target, cur, tickNow, adv>>

\* Timer.Reset(d) of the hook variant: under the Timer's lock t.next = next,
\* and when t.stopped the Timer is appended under the mutex of the clock,
\* taken with the Timer's lock held; then t.stopped = false
OtherReset ==
    /\ pc \in {"loop", "tick", "afterfn", "final"}
    /\ mu = "free"
    /\ \/ \E e \in Ids, d \in WorkerDelays :
            /\ other.pc = "none"
            /\ IsTimer(e)
            /\ ev' = [ev EXCEPT ![e].next = TimeAdd(now, d)]
            /\ call' = Called("Reset", e, d, ~ev[e].stopped, FALSE)
            /\ h' = [h EXCEPT ![e] = Armed(now, d, FALSE)]
            /\ other' = IF ev[e].stopped
                        THEN [NoOther EXCEPT !.pc = "reset2", !.cur = e]
                        ELSE NoOther
            /\ timers' = timers
       \/ /\ other.pc = "reset2"
          /\ Len(timers) < MaxEvents
          /\ timers' = Append(timers, other.cur)
          /\ ev' = [ev EXCEPT ![other.cur].stopped = FALSE]
          /\ other' = NoOther
          /\ UNCHANGED <<call, h>>
    /\ UNCHANGED <<now, mu, sync, pc, target, cur, tickNow, adv>>

\* mockClock.runNextTimer(max) of the hook variant: with the mutex held, the
\* sort and t.Next() take the read lock of the registered Timers
HookRunNextTimer ==
    \/ /\ pc = "loop" /\ mu = "free"
       /\ \E e \in Ids : Registered(e) /\ TimerLocked(e)
       /\ pc' = "blocked"
       /\ mu' = "ctl"
       /\ UNCHANGED <<now, timers, ev, sync, target, cur, tickNow, h, adv,
                      call, other>>
    \/ /\ ~\E e \in Ids : Registered(e) /\ TimerLocked(e)
       /\ RunNextTimer

\* internalTimer.Tick(now) of the hook variant in its steps: the send and
\* removeClockTimer, then t.stopped = true under the Timer's lock
HookTimerTickSteps ==
    /\ mu = "free"
    /\ \/ /\ pc = "tick"
          /\ IsTimer(cur)
          /\ IF ~HasFn(cur) /\ Len(ev[cur].c) >= ChanCap
             THEN /\ pc' = "blocked"
                  /\ UNCHANGED <<ev, timers, h, adv>>
             ELSE /\ ev' = [ev EXCEPT
                        ![cur].c = IF HasFn(cur) THEN @ ELSE Append(@, tickNow)]
                  /\ timers' = RemoveClockTimer(ev', timers, cur)
                  /\ Fired(cur)
                  /\ pc' = "afterfn"
          /\ UNCHANGED <<cur, tickNow>>
       \/ /\ pc = "afterfn"
          /\ ~TimerLocked(cur)
          /\ ev' = [ev EXCEPT ![cur].stopped = TRUE]
          /\ pc' = "loop"
          /\ cur' = NoId /\ tickNow' = 0
          /\ UNCHANGED <<timers, h, adv>>
    /\ UNCHANGED <<now, mu, sync, target, call, other>>

\* mockClock.Timer(d), called once
HookOneTimer ==
    /\ Used = {}
    /\ HookCreate
    /\ call'.op = "Timer"

\* The hook variant with a controller that creates one Timer and another
\* goroutine that stops and resets it.
NextHookRace ==
    \/ HookOneTimer
    \/ HookAdd
    \/ HookRunNextTimer
    \/ HookTimerTickSteps
    \/ AdvanceEnd
    \/ OtherStop
    \/ OtherReset

SpecHookRace == Init /\ [][NextHookRace]_vars

\* -------------------------------------------------- a Ticker of period zero
\* UnsynchronizedMock.NewTicker(0): the mock takes any period, and the
\* Ticker's first tick is due at once.
NewTickerZero ==
    /\ pc = "idle" /\ mu = "free" /\ CanCreate
    /\ LET e == FreshId IN
        /\ ev' = [ev EXCEPT ![e] =
                    [kind |-> "ticker", next |-> TimeAdd(now, 0), d |-> 0,
                     stopped |-> FALSE, c |-> <<>>, fn |-> NoFn]]
        /\ timers' = Append(timers, e)
        /\ h' = [h EXCEPT ![e] = Armed(now, 0, TRUE)]
    /\ sync' = StartedTicker(sync)
    /\ adv' = NoAdv /\ call' = NoCall
    /\ UNCHANGED <<now, mu, pc, target, cur, tickNow, other>>

\* One controller that creates Timers and Tickers of any period the mock
\* takes, reads their channels and calls Add.
NextAnyPeriod ==
    \/ NewTimer
    \/ NewTicker
    \/ NewTickerZero
    \/ Recv
    \/ AddBegin
    \/ RunNextTimer
    \/ TimerTick
    \/ TickerTick
    \/ AdvanceEnd

\* Add is one goroutine that runs its loop without waiting for anything but
\* its own sends, so each of its steps is taken once it can be.
SpecAnyPeriodLive ==
    /\ Init /\ [][NextAnyPeriod]_vars
    /\ WF_vars(RunNextTimer) /\ WF_vars(TimerTick)
    /\ WF_vars(TickerTick) /\ WF_vars(AdvanceEnd)

\* ------------------------------------ Stop and Reset of Timers and Tickers
\* One controller that creates Timers and Tickers, stops and resets them,
\* reads their channels and calls Add.
NextFrame ==
    \/ NewTimer
    \/ NewTicker
    \/ AddBegin
    \/ RunNextTimer
    \/ TimerTick
    \/ TickerTick
    \/ AdvanceEnd
    \/ Stop
    \/ Reset
    \/ TickerStop
    \/ TickerReset

SpecFrame == Init /\ [][NextFrame]_vars

\* ------------------------------------------------- Add as one computation
\* A state of the clock with the fires made so far: now, ev and timers as
\* in the variables, log the sequence of <<event, timestamp>> fired, blocked
\* set once a Timer's send has found its channel full.
\* internalTimer.Tick(now) and internalTicker.Tick(now) of event t, the
\* clock already moved to the time of the fire
TickResult(S, t) ==
    IF S.ev[t].kind = "ticker"
    THEN [S EXCEPT
            !.ev[t].c = IF Len(@) < ChanCap THEN Append(@, S.now) ELSE @,
            !.ev[t].next = TickerNext(S.now, S.ev[t].d),
            !.log = Append(@, <<t, S.now>>)]
    ELSE IF Len(S.ev[t].c) >= ChanCap
    THEN [S EXCEPT !.blocked = TRUE]
    ELSE [S EXCEPT
            !.ev[t].c = Append(@, S.now),
            !.ev[t].stopped = TRUE,
            !.timers = RemoveClockTimer(S.ev, S.timers, t),
            !.log = Append(@, <<t, S.now>>)]

\* for { if !m.runNextTimer(t) { break } }
RECURSIVE RunLoop(_, _)
RunLoop(S, max) ==
    LET sorted == SortTimers(S.ev, S.timers) IN
    IF S.blocked THEN S
    ELSE IF sorted = <<>> \/ After(S.ev[sorted[1]].next, max)
    THEN [S EXCEPT !.timers = sorted]
    ELSE LET fired == {TickResult([S EXCEPT
                                !.timers = sorted,
                                !.now = MoveNow(S.ev[sorted[1]].next, max)],
                            sorted[1])}
         IN CHOOSE r \in {RunLoop(T, max) : T \in fired} : TRUE

\* UnsynchronizedMock.Add(d) from the first pass of its loop to m.now = t; an
\* Add that blocks in a send stays where it is, and so does every call
\* after it.
RunAdd(S, d) ==
    CHOOSE x \in {IF r.blocked THEN r ELSE [r EXCEPT !.now = TimeAdd(S.now, d)] :
                    r \in {RunLoop(S, TimeAdd(S.now, d))}} : TRUE

\* ------------------------------------------------------------------ claims
Timers  == {e \in Ids : ev[e].kind = "timer"}
Tickers == {e \in Ids : ev[e].kind = "ticker"}
Returned(op) == pc = "idle" /\ adv.done /\ adv.op = op

\* C1: with one controller that creates Timers and Tickers and calls Add(D),
\* D >= 0, the events fired during the call are exactly those whose fireAt
\* was <= now_before + D when it was made, and when Add has returned the
\* time is now_before + D; a new mock is at the epoch.
C1_AddFiresDueAndLands ==
    /\ Returned("Add") =>
            /\ adv.fired = DOMAIN adv.due0
            /\ now = adv.now0 + adv.arg
    /\ (Used = {} /\ adv.op = "none") => now = Epoch

C1_Witness ==
    /\ Returned("Add")
    /\ adv.arg > 0
    /\ adv.fired # {}
    /\ \E e \in Used : Registered(e) /\ e \notin adv.fired

\* C2: within one Add or Set the timestamps of the fires never decrease, and
\* of two events that were registered at the call with
\* fireAt1 < fireAt2 <= target the second is not fired before the first.
C2_FiredInTimeOrder ==
    /\ pc = "tick" => adv.lastTs <= tickNow
    /\ \A e1, e2 \in DOMAIN adv.due0 :
            (adv.due0[e1] < adv.due0[e2] /\ e2 \in adv.fired)
                => e1 \in adv.fired

C2_Witness ==
    /\ pc = "tick"
    /\ adv.lastTs >= 0 /\ adv.lastTs < tickNow
    /\ \E e1 \in adv.fired : e1 # cur /\ timers[1] = cur
          /\ adv.due0[e1] < adv.due0[cur] /\ e1 > cur

\* C3: the current time never decreases from one step to the next, whatever
\* Add, Set, creation, Reset or Stop is called.
C3_NowNeverDecreases == [][now' >= now]_vars

\* C4: a Set(t) with t earlier than the current time is rejected: it fires
\* no event, does not return normally and leaves the time and the registry
\* as they were.
C4_SetInPastRejected ==
    (adv.op = "Set" /\ adv.arg < adv.now0) =>
        /\ ~adv.done
        /\ adv.fired = {}
        /\ now = adv.now0

\* C5: whenever an event is fired, the current time is that event's fireAt,
\* not the target of the advance, and the timestamp handed to its channel is
\* that fireAt too.
C5_FiresAtOwnTime ==
    /\ [](pc \in {"tick", "fn"} =>
            /\ now = ev[cur].next
            /\ tickNow = ev[cur].next)
    /\ [][\A e \in Ids :
            Len(ev'[e].c) > Len(ev[e].c) =>
                /\ ev'[e].c = Append(ev[e].c, ev[e].next)
                /\ now = ev[e].next]_vars

C5_Witness ==
    /\ pc = "tick"
    /\ now < target
    /\ now > adv.now0
    /\ ~HasFn(cur)

\* C6: a Timer(d) created at time T and never stopped or reset delivers one
\* value, T + d, and only in an advance whose target is >= T + d: it has
\* delivered nothing while no advance has reached T + d, and exactly that
\* value once one has, however many advances follow.
C6_TimerFiresOnceAtDue ==
    \A e \in Timers :
        (h[e].pristine /\ ~HasFn(e)) =>
            LET due == h[e].born + h[e].d0 IN
            /\ h[e].fires <= 1
            /\ h[e].fires = 0 => ev[e].c = <<>>
            /\ h[e].fires = 1 => ev[e].c = <<due>>
            /\ (pc = "tick" /\ cur = e) => (target >= due /\ h[e].fires = 0)
            /\ (pc = "idle" /\ adv.done /\ adv.now0 <= now /\ now >= due)
                    => h[e].fires = 1
            /\ (pc = "idle" /\ h[e].fires = 0) => ~(adv.done /\ now >= due)

C6_Witness ==
    \E e \in Timers :
        /\ h[e].pristine /\ ~HasFn(e)
        /\ Returned("Add")
        /\ h[e].d0 > 0
        /\ h[e].born > 0
        /\ e \notin adv.fired
        /\ ev[e].c = <<h[e].born + h[e].d0>>

\* C7: a Ticker created at T with period p > 0 and advanced by Add to T + k*p
\* has fired exactly k times, at T + p, T + 2p, ..., T + k*p.
C7_TickerFiresEveryPeriod ==
    \A e \in Tickers :
        /\ (pc = "tick" /\ cur = e) =>
                tickNow = h[e].born + (h[e].fires + 1) * ev[e].d
        /\ pc = "idle" => h[e].fires = (now - h[e].born) \div ev[e].d
        /\ ev[e].d = h[e].d0 /\ ev[e].d > 0

C7_Witness ==
    \E e \in Tickers :
        /\ Returned("Add")
        /\ h[e].born > 0
        /\ ev[e].d > 1
        /\ h[e].fires >= 1
        /\ now = h[e].born + h[e].fires * ev[e].d

\* C8: Stop on a Timer returns true exactly when the Timer was armed (created
\* or Reset, and neither fired nor stopped since), so true on the first call
\* and false on a second call and on a fired Timer; and a Timer picked for
\* firing is armed, so a stopped Timer never fires.  A Stop made by the
\* Timer's own callback, while it fires, is left aside.
C8_StopReportsArmed ==
    /\ (call.op = "Stop" /\ ~call.self) => call.ret = call.wasArmed
    /\ (pc = "tick" /\ IsTimer(cur)) => h[cur].armed

\* C9: once the callback of a Timer has called Reset(d) on its own Timer and
\* the firing is over, the Timer is registered with fireAt = now_at_reset + d
\* until it fires again.
C9_ResetInHandlerRearms ==
    (/\ call.op = "Reset" /\ call.self
     /\ pc \in {"loop", "final", "idle"}
     /\ h[call.id].armed)
        => /\ Registered(call.id)
           /\ ev[call.id].next = call.at + call.d

\* C10: while the callback of a fired AfterFunc Timer runs, the mutex of the
\* clock is free, so a Stop or Reset it calls gets the mutex, returns, and the
\* advance goes on; and a Timer that a callback stopped is not picked for
\* firing afterwards.
C10_CallbackRunsUnlocked ==
    /\ pc = "fn" => mu = "free"
    /\ (pc = "tick" /\ call.op = "Stop" /\ call.inFn) => cur # call.id

\* C11: an Add or Set never blocks while it delivers the value of a Timer,
\* also when the channel still holds an unread value because the Timer fired,
\* was Reset without a read, and fires again.
C11_FireNeverBlocks == pc # "blocked"

\* C12: the fire of a Ticker never blocks the advance; it leaves the channel
\* as it was (the tick is dropped) or with the tick appended, never empty, and
\* it leaves the Ticker registered with its fireAt one period later.
C12_TickerDropsIfFull ==
    /\ [](\A e \in Tickers : ~(pc = "blocked" /\ cur = e))
    /\ [][\A e \in Tickers :
            (pc = "tick" /\ cur = e /\ pc' # "tick") =>
                /\ pc' = "loop"
                /\ ev'[e].c \in {ev[e].c, Append(ev[e].c, tickNow)}
                /\ ev'[e].c # <<>>
                /\ ev'[e].next = ev[e].next + ev[e].d
                /\ ev'[e].d = ev[e].d
                /\ \E i \in 1..Len(timers') : timers'[i] = e]_vars

C12_Witness ==
    \E e \in Tickers :
        /\ Returned("Add")
        /\ h[e].fires >= 3
        /\ ev[e].c = <<h[e].born + ev[e].d>>
        /\ ev[e].next > now

\* C13: after ExpectStarts(n) made from a clean slate (no registration
\* recorded, none outstanding), WaitForStart() returns only when n more
\* Timers and Tickers have been registered since, whatever the workers do
\* meanwhile, and once they have been registered it does return.
C13_WaitForStartAwaitsStarts ==
    /\ [][(pc = "WaitForStart" /\ pc' = "idle" /\ sync.due > 0)
            => Cardinality(Used) >= sync.due]_vars
    /\ (pc = "WaitForStart" /\ sync.due > 0 /\ Cardinality(Used) >= sync.due)
            ~> (pc # "WaitForStart")

C13_Witness ==
    /\ call.op = "WaitForStart" /\ call.ret /\ pc = "idle"
    /\ sync.due = MaxEvents
    /\ Cardinality(Used) = sync.due
    /\ \E e \in Tickers : TRUE
    /\ \E e \in Timers : TRUE

\* A step in which the controller declares an expectation.
Declares(op) ==
    /\ pc = "idle" /\ call'.op = op
    /\ ev' = ev /\ sync'.made = sync.made

\* C14: ExpectConfirms(n) raises the count behind WaitForConfirm and leaves
\* the one behind WaitForStart alone; after an ExpectConfirms(n) made from a
\* clean slate WaitForConfirm() returns only when n Confirm calls have been
\* made since and nothing is outstanding, and then it does return.
C14_WaitForConfirmAwaitsConfirms ==
    /\ [][Declares("ExpectConfirms") =>
            /\ sync'.newTimers = sync.newTimers
            /\ sync'.confirms = sync.confirms + call'.d - sync.recentConfirms]_vars
    /\ [][(pc = "WaitForConfirm" /\ pc' # "WaitForConfirm" /\ sync.dueC > 0)
            => sync.made >= sync.dueC /\ sync.confirms = 0]_vars
    /\ (pc = "WaitForConfirm" /\ sync.dueC > 0 /\ sync.made >= sync.dueC)
            ~> (pc # "WaitForConfirm")

C14_Witness ==
    /\ call.op = "WaitForConfirm" /\ call.ret /\ pc = "idle"
    /\ sync.dueC = MaxConfirms
    /\ sync.made = sync.dueC

C16_CountersNeverNegative ==
    /\ sync.expectingStarts >= 0
    /\ sync.expectingConfirms >= 0
    /\ sync.newTimers >= 0
    /\ sync.confirms >= 0

\* A step in which a Timer or Ticker is created.
Creates == Cardinality(Used') = Cardinality(Used) + 1

\* C17: without a fail-fast sink a creation either takes one off the
\* outstanding starts or adds one to the recent registrations, and changes
\* neither otherwise; and an ExpectStarts(n) made with nothing outstanding
\* after k creations that found nothing outstanding, n >= k, leaves n - k
\* outstanding.
C17_CreationCountedOnce ==
    [][/\ (Creates /\ ~sync.tForFail) =>
            \/ /\ sync'.expectingStarts = sync.expectingStarts - 1
               /\ sync'.recentTimers = sync.recentTimers
            \/ /\ sync'.expectingStarts = sync.expectingStarts
               /\ sync'.recentTimers = sync.recentTimers + 1
       /\ (/\ Declares("ExpectStarts") /\ ~sync.tForFail
           /\ sync.expectingStarts = 0 /\ call'.d >= sync.loose) =>
            /\ sync'.expectingStarts = call'.d - sync.loose
            /\ sync'.newTimers = call'.d - sync.loose]_vars

\* The options of the advancing call include o.
HasOpt(o) == \E k \in 1..Len(adv.opts) : adv.opts[k].o = o

\* C18: an Add that carries WaitForStartsAfter, WaitForConfirmsAfter or
\* WaitAfter has not returned while the count it waits for is above zero.
C18_AfterOptionsWait ==
    Returned("Add") =>
        /\ (HasOpt("WaitForStartsAfter") \/ HasOpt("WaitAfter"))
                => sync.newTimers = 0
        /\ (HasOpt("WaitForConfirmsAfter") \/ HasOpt("WaitAfter"))
                => sync.confirms = 0

\* C19: while a fail-fast sink is set, a creation and a Confirm() report one
\* failure when nothing of their kind is outstanding and none when they take
\* an outstanding expectation; and a sink that is set stays set until an
\* IgnoreUnexpectedUpcomingEvent is applied.
C19_FailFastReportsUnexpected ==
    [][/\ (Creates /\ sync.tForFail) =>
            sync'.failures = sync.failures +
                (IF sync.expectingStarts > 0 THEN 0 ELSE 1)
       /\ (sync'.made = sync.made + 1 /\ sync.tForFail) =>
            sync'.failures = sync.failures +
                (IF sync.expectingConfirms > 0 THEN 0 ELSE 1)
       /\ (sync.tForFail /\ ~sync'.tForFail) =>
            /\ pc = "upcoming" /\ adv.i <= Len(adv.opts)
            /\ adv.opts[adv.i].o = "IgnoreUnexpectedUpcomingEvent"]_vars

C19_Witness ==
    /\ sync.failures = 2 /\ sync.made = 1
    /\ ~sync.tForFail
    /\ HasOpt("IgnoreUnexpectedUpcomingEvent")
    /\ Cardinality(Used) = 2
    /\ sync.recentTimers >= 1

\* C20: a Stop() made by another goroutine on the Timer that the advancing
\* goroutine has picked and not yet done with returns false and changes
\* nothing; so no Timer delivers its value or runs its callback after such a
\* Stop returned true.
C20_StopLosesToFire ==
    [][/\ (/\ pc \in {"tick", "fn", "afterfn"}
           /\ call'.op = "Stop" /\ call'.id = cur /\ ~call'.inFn
           /\ (call' # call \/ ev' # ev)) =>
                ~call'.ret /\ ev' = ev /\ timers' = timers
       /\ (/\ pc = "tick" /\ IsTimer(cur)
           /\ call.op = "Stop" /\ call.id = cur /\ ~call.inFn /\ call.ret) =>
                h'[cur].fires = h[cur].fires]_vars

AdvTarget == IF adv.op = "Add" THEN adv.now0 + adv.arg ELSE adv.arg

\* C22: the callback of an AfterFunc(d, f) made at time T and never stopped
\* runs once at most, on the advancing goroutine, with the clock at T + d,
\* in an Add or Set that goes to T + d or beyond; when the first such call
\* has returned the callback has run and the Timer is out of the registry.
C22_AfterFuncRunsOnce ==
    /\ [](\A e \in Timers :
            (HasFn(e) /\ h[e].pristine) =>
                /\ h[e].fires <= 1
                /\ ((Returned("Add") \/ Returned("Set"))
                        /\ AdvTarget >= h[e].born + h[e].d0) => h[e].fires = 1
                /\ h[e].fires = 0 => Registered(e) /\ ~ev[e].stopped
                /\ (h[e].fires = 1 /\ pc \in {"idle", "loop", "final"}) =>
                        ~Registered(e) /\ ev[e].stopped)
    /\ [][\A e \in Timers :
            (HasFn(e) /\ h[e].pristine /\ h'[e].fires = h[e].fires + 1) =>
                /\ pc = "tick" /\ pc' = "fn" /\ cur = e
                /\ now = h[e].born + h[e].d0
                /\ target >= now]_vars

C22_Witness ==
    \E e \in Timers :
        /\ HasFn(e) /\ h[e].pristine /\ h[e].d0 > 0 /\ h[e].born > 0
        /\ Returned("Set") /\ h[e].fires = 1
        /\ adv.arg > h[e].born + h[e].d0

\* The places of e in the registry.
Places(s, e) == {i \in 1..Len(s) : s[i] = e}

\* C23: Reset(d) sets the fireAt of the Timer to Now() + d, leaves it in the
\* registry once, and returns whether it was armed; a Timer armed by Reset at
\* time T fires with the clock at T + d only, has fired when an Add to T + d
\* or beyond has returned, and is picked only when no registered event is
\* due earlier.
C23_ResetRearms ==
    /\ [](\A e \in Timers :
            /\ (~h[e].pristine /\ h[e].armed) =>
                    /\ ev[e].next = h[e].born + h[e].d0
                    /\ Cardinality(Places(timers, e)) = 1
                    /\ (Returned("Add") /\ AdvTarget >= ev[e].next) => FALSE
            /\ (pc = "tick" /\ cur = e /\ ~h[e].pristine) =>
                    \A x \in Used : Registered(x) => ev[x].next >= ev[e].next)
    /\ [][/\ (call'.op = "Reset" /\ (call' # call \/ ev' # ev)) =>
                /\ call'.ret = h[call'.id].armed
                /\ call'.ret = Registered(call'.id)
                /\ ev'[call'.id].next = now + call'.d
                /\ h'[call'.id].armed
          /\ \A e \in Timers :
                (~h[e].pristine /\ h'[e].fires = h[e].fires + 1) =>
                    h[e].armed /\ now = h[e].born + h[e].d0]_vars

C23_Witness ==
    \E e \in Timers, x \in Timers :
        /\ ~h[e].pristine /\ h[e].fires = 1 /\ h[e].born > 0 /\ h[e].d0 > 0
        /\ ev[e].c # <<>>
        /\ h[x].pristine /\ h[x].armed /\ ev[x].next > h[e].born + h[e].d0
        /\ h[x].born >= h[e].born
        /\ Returned("Add")

\* C24: when a Timer has fired in an Add, its value has been read and the
\* consumer has called Reset(d) with the fire time plus d within the target
\* of that Add, the Timer has fired again by the time the Add has returned
\* and the Reset is done: the consumer's second read is not left waiting for
\* a fire that cannot come.
C24_ResetAfterReadRearms ==
    \A e \in Timers :
        (/\ Returned("Add")
         /\ call.op = "Reset" /\ call.id = e
         /\ e \in adv.fired
         /\ adv.lastTs + call.d <= AdvTarget)
            => ~h[e].armed

\* C25: a running Ticker on which Reset(d), d > 0, was called at time T ticks
\* next at T + d and then every d: each of its ticks carries T + k*d for the
\* k-th tick since the Reset, and between advances it has ticked once for
\* every whole d elapsed since T, whatever its due time was before.
C25_TickerResetReschedules ==
    \A e \in Tickers :
        (h[e].armed /\ ~h[e].pristine) =>
            /\ (pc = "tick" /\ cur = e) =>
                    tickNow = h[e].born + (h[e].fires + 1) * h[e].d0
            /\ pc = "idle" => h[e].fires = (now - h[e].born) \div h[e].d0
            /\ Registered(e)
            /\ ev[e].d = h[e].d0

C25_Witness ==
    \E e \in Tickers :
        /\ Returned("Add")
        /\ h[e].armed /\ ~h[e].pristine
        /\ h[e].born > 0
        /\ h[e].fires >= 1
        /\ now = h[e].born + h[e].fires * h[e].d0

\* C26: a Ticker stopped between advances is never picked for a tick again,
\* however far time is advanced, and Stop on a stopped Ticker changes neither
\* the events that are registered nor any Timer or Ticker nor the time.
C26_StoppedTickerIsSilent ==
    /\ [](pc = "tick" /\ IsTicker(cur) => h[cur].armed)
    /\ [][(/\ pc = "idle" /\ pc' = "idle"
           /\ call'.op = "Stop" /\ IsTicker(call'.id)
           /\ ~h[call'.id].armed)
            => /\ Len(timers') = Len(timers)
               /\ \A e \in Ids : Registered(e)' <=> Registered(e)
               /\ ev' = ev /\ now' = now]_vars

C26_Witness ==
    \E e \in Tickers :
        /\ Returned("Add")
        /\ ~h[e].armed
        /\ h[e].fires >= 1
        /\ ev[e].next <= now
        /\ adv.arg > 0

\* C27: with Tickers read by a consumer goroutine and a controller that
\* advances in increments of 1 unit, no tick is missed: every fire of a Ticker
\* puts its tick in the Ticker's channel, so the consumer receives as many
\* ticks from each Ticker as it has fired.
C27_NoTickMissed ==
    [][\A e \in Tickers :
        (/\ adv.op = "Add" /\ adv.arg = 1
         /\ pc = "tick" /\ cur = e /\ pc' = "loop")
            => ev'[e].c = Append(ev[e].c, tickNow)]_vars

\* C28: in every reachable state a Timer whose stopped flag is set is not in
\* the registry, and so a Timer in the registry has its stopped flag clear.
C28_StoppedIffUnregistered ==
    \A e \in Timers : ~(ev[e].stopped /\ Registered(e))

C30_ConcurrentAddsSumUp ==
    (Returned("Add") /\ other.pc = "done")
        => now = adv.now0 + adv.arg + other.d

\* C31: in an Add with options, nothing is declared while the waits of the
\* first loop are under way, the first loop ends only when every wait in the
\* list is satisfied by the counts as they are then (so not by what the same
\* call declares later), and until both loops are over the time does not
\* move and no event fires.
C31_PriorBeforeUpcomingBeforeFire ==
    [][/\ pc = "prior" =>
            /\ sync'.newTimers <= sync.newTimers
            /\ sync'.confirms <= sync.confirms
            /\ sync'.tForFail = sync.tForFail
            /\ pc' \in {"prior", "upcoming"}
       /\ (pc = "prior" /\ pc' = "upcoming") =>
            /\ (HasOpt("WaitForStartsBefore") \/ HasOpt("WaitBefore"))
                    => sync'.newTimers = 0
            /\ (HasOpt("WaitForConfirmsBefore") \/ HasOpt("WaitBefore"))
                    => sync'.confirms = 0
       /\ pc \in {"prior", "upcoming"} =>
            /\ now' = now
            /\ \A e \in Ids : h'[e].fires = h[e].fires
            /\ pc' \in {"prior", "upcoming", "loop", "panic"}]_vars

C31_Witness ==
    /\ pc = "loop"
    /\ HasOpt("WaitForStartsBefore")
    /\ HasOpt("ExpectUpcomingStarts")
    /\ sync.newTimers > 0
    /\ sync.made > 0

\* C32: in the hook variant an Add(d) with d < 0 panics and changes nothing:
\* the time, the registry and every Timer are as before, nothing fires, and
\* the panicked call does nothing afterwards.
C32_NegativeAddPanics ==
    /\ [][(pc = "idle" /\ adv'.op = "Add" /\ adv'.arg < 0) =>
            /\ pc' = "panic"
            /\ now' = now /\ timers' = timers /\ ev' = ev /\ h' = h]_vars
    /\ [][pc = "panic" => UNCHANGED vars]_vars

C32_Witness ==
    /\ pc = "panic"
    /\ adv.arg < 0
    /\ now > 0
    /\ timers # <<>>

\* C33: in the hook variant every creation of a Timer through the clock,
\* by Timer, After, AfterFunc or Sleep, has called the HookBeforeTimer hook
\* once and the HookAfterTimer hook once, each with the time of the mock.
C33_CreationCallsBothHooks ==
    call.op \in HookCreations =>
        /\ call.before = <<call.at>>
        /\ call.after = <<call.at>>

\* C38: in the hook variant, once an Add has returned at or after the due time
\* of a Timer created before it, that Timer has delivered to the sink it was
\* created for, the callback of an AfterFunc included, whatever its delay.
C38_DueAtCreationStillDelivered ==
    \A e \in Timers :
        (Returned("Add") /\ h[e].born + h[e].d0 <= now) =>
            /\ h[e].fires = 1
            /\ HasFn(e) => ev[e].c = <<>>

\* C34: in the Expect variant the wait group never goes below zero, and a
\* WaitForStart() that follows Expect(n) has returned only when n Timers and
\* Tickers have been created on the mock.
C34_ExpectAwaitsAllNeverNegative ==
    /\ sync.newTimers >= 0
    /\ (pc = "waited" /\ call.op = "Expect") => sync.totalTimers >= call.d

\* C35: the registry never holds the same Timer twice, and no arming of a
\* Timer (its creation or a Reset) fires more than once.
C35_OneFiringPerArming ==
    \A e \in Timers :
        /\ \A i, j \in 1..Len(timers) :
                (timers[i] = e /\ timers[j] = e) => i = j
        /\ h[e].fires <= 1

\* C36: in the hook variant the controller is never stuck in runNextTimer
\* with the mutex of the clock held, waiting for the lock of a Timer whose
\* holder is in Reset waiting for that mutex.
C36_NoLockCycle ==
    ~(/\ pc = "blocked" /\ mu = "ctl"
      /\ other.pc = "reset2"
      /\ Registered(other.cur))

\* C37: an Add that starts with every channel empty fires finitely many
\* times and returns.
C37_AddReturns ==
    (pc = "loop" /\ adv.op = "Add" /\ adv.fired = {}
        /\ \A e \in Ids : ev[e].c = <<>>) ~> (pc = "idle")

\* C40: a Stop or Reset of one Timer or Ticker leaves the current time, the
\* start and confirm counters, and the fire time, period, channel and
\* registration of every other event as they were.
C40_StopResetFrame ==
    [][(pc = "idle" /\ call'.op \in {"Stop", "Reset"}) =>
            /\ now' = now
            /\ sync' = sync
            /\ \A x \in Ids \ {call'.id} :
                /\ ev'[x] = ev[x]
                /\ Registered(x)' <=> Registered(x)]_vars

C40_Witness ==
    /\ pc = "idle" /\ call.op = "Stop" /\ IsTicker(call.id)
    /\ \E x \in Ids \ {call.id} : Registered(x) /\ ev[x].c # <<>>

\* The clock as it is, with nothing fired yet.
Here == [now |-> now, ev |-> ev, timers |-> timers, log |-> <<>>,
         blocked |-> pc = "blocked"]

\* What the advance under way leaves when it returns, and what it has still
\* to fire.
Outcome ==
    LET end(r) == IF r.blocked THEN r ELSE [r EXCEPT !.now = target]
        S == CHOOSE x \in {Here} : TRUE
        T == CHOOSE x \in {TickResult(S, cur)} : TRUE
    IN CASE pc = "loop"  -> CHOOSE x \in {end(r) : r \in {RunLoop(S, target)}} : TRUE
         [] pc = "tick"  -> CHOOSE x \in {end(r) : r \in {RunLoop(T, target)}} : TRUE
         [] pc = "final" -> end(S)
         [] OTHER        -> S

\* C39: Add(a) followed by Add(b) fires the same events in the same order at
\* the same timestamps as Add(a + b), and leaves the same time, registry and
\* channels; every step of an Add under way keeps to that computation.
C39_SplitAddIsOneAdd ==
    /\ [](pc = "idle" =>
            \A a, b \in 0..MaxTime : \A S \in {Here} : \A A \in {RunAdd(S, a)} :
                RunAdd(A, b) = RunAdd(S, a + b))
    /\ [][/\ (pc = "idle" /\ pc' = "loop") =>
                Outcome' = RunAdd(Here, adv'.arg)
          /\ pc \in {"loop", "tick", "final"} =>
                /\ [Outcome' EXCEPT !.log = <<>>] = [Outcome EXCEPT !.log = <<>>]
                /\ Outcome.log =
                     (IF pc = "tick" /\ pc' = "loop"
                      THEN <<<<cur, tickNow>>>> ELSE <<>>) \o Outcome'.log]_vars

C39_Witness ==
    /\ pc = "idle" /\ adv.op = "Add" /\ adv.done
    /\ adv.now0 > 0 /\ adv.arg > 0 /\ adv.fired # {}
    /\ \E e \in Ids : IsTicker(e) /\ h[e].fires >= 2
    /\ \E e \in Ids : IsTimer(e) /\ h[e].fires >= 1

====
